---- MODULE Spec2Model ----
(***************************************************************************)
(* Remnawave connection limiter: the controller (server.py), the legacy    *)
(* periodic checker (checker.py, database.py, remnawave_api.py) and the    *)
(* node agents (node.py, node_reporter.py) as state machines.              *)
(*                                                                         *)
(* Time is the wall clock in seconds (time.time()).  Code between two      *)
(* awaits of the asyncio controller is one atomic step; the agents are     *)
(* threads, one step per iptables command or per locked region.            *)
(***************************************************************************)
EXTENDS Integers, Sequences, FiniteSets, TLC

\* ------------------------------------------------------------------------
\* Universe of inputs
\* ------------------------------------------------------------------------
\* An IPv4 address is <<its /24 prefix, its host byte>>.
IP11 == <<1, 1>>
IP12 == <<1, 2>>
IP13 == <<1, 3>>
IP21 == <<2, 1>>
AllIPs == {IP11, IP12, IP13, IP21}
AllUsers == {"alice", "bob"}
AllNodes == {"nodeA", "nodeB"}
Subnet24(ip) == ip[1]

NoTs == 0 - 1

\* the session ids secrets.token_hex hands out
Sids == {"sid1"}

NoConn == [node |-> "", ts |-> NoTs]
NoLimit == <<NoTs, NoTs>>

\* A raw log line: one that parse_log_line matches ("conn"), one it does not
\* ("noise"); NoLine is the empty string.
ConnLine(u, ip) == [kind |-> "conn", user |-> u, ip |-> ip]
NoiseLine == [kind |-> "noise", user |-> "", ip |-> <<0, 0>>]
NoLine == [kind |-> "none", user |-> "", ip |-> <<0, 0>>]

\* ------------------------------------------------------------------------
\* Configuration of the controller (server.py defaults of cfg_int / cfg)
\* ------------------------------------------------------------------------
IP_WINDOW_SECONDS == 300
DROP_COOLDOWN_SECONDS == 60
DISABLE_MINUTES == 10
CONCURRENT_WINDOW == 30
LIMIT_CACHE_TTL == 120
DROP_ALL_IPS == TRUE
HTTP_TOTAL_TIMEOUT == 10
PRUNE_GRACE_SECONDS == 60
CLEANUP_SLEEP_SECONDS == 60
SESSION_TTL == 86400
RECENTLY_DROPPED_SECONDS == 30
CACHE_TTL == 300

\* ------------------------------------------------------------------------
\* Configuration of the periodic checker (config.example.py, checker.py,
\* remnawave_api.py)
\* ------------------------------------------------------------------------
CHK_IP_WINDOW_SECONDS == 60
BLOCK_DURATION_SECONDS == 120
VIOLATION_CONFIRM_COUNT == 2
CHECK_INTERVAL_SECONDS == 15

\* ------------------------------------------------------------------------
\* Configuration of the agents
\* ------------------------------------------------------------------------
SWEEP_SLEEP_SECONDS == 5
READ_INTERVAL == 60
CLEANUP_MAX_AGE_SECONDS == 120
LIMIT_WHEN_NO_USER == 1
LIMIT_WHEN_UNSET == 999

\* ------------------------------------------------------------------------
\* Bounds of the model
\* ------------------------------------------------------------------------
MaxTasks == 2
MaxRequests == 3
MaxLines == 2
MaxCycles == 3
MaxAgentReqs == 3
MaxLogLines == 3
MaxFiles == 2

VARIABLES
    now,            \* time.time()
    conns,          \* DB.connections: [user][ip] -> [node, ts]   (PRIMARY KEY(user, ip))
    limit_cache,    \* limit_cache: user -> <<limit, ts>>
    drop_cooldown,  \* drop_cooldown: user -> ts of the last enforcement
    disabled_users, \* disabled_users: user -> expires_at
    disabled_file,  \* contents of .disabled_users.json
    log_state,      \* log_state: node -> last raw line of its previous upload
    tasks,          \* the coroutines suspended at an await
    cfgv,           \* the .env settings the claims speak about
    upstream,       \* the subscription API's record of each user
    delivered,      \* /block commands the nodes answered with 200
    reqCount,       \* requests accepted so far (bounded by MaxRequests)
    cleanup_wake,   \* the end of the sleep cleanup_task is in
    sessions,       \* sessions: session id -> time of the login
    hist,           \* history variables: what the controller has done
    chk,            \* the periodic checker: its tables, counters and position
    ag,             \* one agent: its firewall, blocked_ips and its two threads
    ls              \* log_server.py: its caches and its check_and_drop tasks

ctlVars == <<now, conns, limit_cache, drop_cooldown, disabled_users, disabled_file,
             log_state, tasks, cfgv, upstream, delivered, reqCount, cleanup_wake,
             sessions, hist>>

vars == <<ctlVars, chk, ag, ls>>

\* ------------------------------------------------------------------------
\* DB (server.py, in-memory sqlite)
\* ------------------------------------------------------------------------
DbAdd(c, u, ip, node, t) == [c EXCEPT ![u][ip] = [node |-> node, ts |-> t]]

\* (the window with its far edge included)
GetUserIpsInclusive(c, u, t) ==
    {ip \in AllIPs : c[u][ip] # NoConn /\ c[u][ip].ts >= t - IP_WINDOW_SECONDS}
GetUserIps(c, u, t) ==
    {ip \in AllIPs : c[u][ip] # NoConn /\ c[u][ip].ts > t - IP_WINDOW_SECONDS}

GetActiveUsers(c, t) ==
    {u \in AllUsers : \E ip \in AllIPs :
        c[u][ip] # NoConn /\ c[u][ip].ts > t - IP_WINDOW_SECONDS}

DbCleanup(c, t) ==
    [u \in AllUsers |-> [ip \in AllIPs |->
        IF c[u][ip] # NoConn /\ c[u][ip].ts < t - IP_WINDOW_SECONDS - PRUNE_GRACE_SECONDS
        THEN NoConn ELSE c[u][ip]]]

\* ------------------------------------------------------------------------
\* Coroutines of the controller.  A task record is the position of one
\* coroutine chain at its pending await:
\*   pc = "start"  created by asyncio.create_task, not yet run
\*   pc = "limit"  get_user_limit awaits GET /api/users/by-id
\*   pc = "uuid"   get_user_uuid awaits GET /api/users/by-id
\*   pc = "post"   disable/enable awaits POST /actions/{op}
\*   pc = "drop"   drop_ip_on_all_nodes awaits the gather over the nodes
\* kind: "check" (check_user task of an ingest), "scan" (scan_all_users),
\*       "sweep" (cleanup_task), "drop" (action_drop_user), "unban".
\* ------------------------------------------------------------------------
Idle == [kind |-> "idle", pc |-> "", user |-> "", op |-> "", ips |-> {},
         todo |-> <<>>, t0 |-> NoTs]

AutoKinds == {"check", "scan"}

\* The part of the state a synchronous stretch of code may write.
St0 == [tasks |-> tasks, limit_cache |-> limit_cache, drop_cooldown |-> drop_cooldown,
        cleanup_wake |-> cleanup_wake, sessions |-> sessions,
        hist |-> [hist EXCEPT !.checks = {}, !.req = "none"]]

Commit(st) ==
    /\ tasks' = st.tasks
    /\ limit_cache' = st.limit_cache
    /\ drop_cooldown' = st.drop_cooldown
    /\ cleanup_wake' = st.cleanup_wake
    /\ sessions' = st.sessions
    /\ hist' = st.hist
    /\ UNCHANGED <<chk, ag, ls>>

IdleSlots(slots) == {i \in slots : tasks[i].kind = "idle"}
FreeSlot(slots) == CHOOSE i \in IdleSlots(slots) : \A j \in IdleSlots(slots) : i <= j

CacheHitNever(cache, u, t) == FALSE
CacheHit(cache, u, t) == cache[u] # NoLimit /\ t - cache[u][2] < LIMIT_CACHE_TTL

\* (the test with the comparison the wrong way round)
InCooldownReversed(cd, u, t) == cd[u] # NoTs /\ t - cd[u] > DROP_COOLDOWN_SECONDS
InCooldown(cd, u, t) == cd[u] # NoTs /\ t - cd[u] < DROP_COOLDOWN_SECONDS

\* ips_to_drop of handle_violation; the order of the list of DB rows is not
\* specified, so the excess is any |ips| - limit of them.
IpsToDrop(ips, limit) ==
    IF DROP_ALL_IPS THEN ips
    ELSE CHOOSE s \in SUBSET ips :
            Cardinality(s) = (IF Cardinality(ips) > limit
                              THEN Cardinality(ips) - limit ELSE 1)

RECURSIVE Finish(_, _), BeginCheck(_, _, _), Decide(_, _, _, _), HandleViolation(_, _, _, _, _)

\* enable_user_subscription up to its first await
BeginEnable(st, i, u) ==
    [st EXCEPT !.tasks[i] = [@ EXCEPT !.pc = "uuid", !.op = "enable", !.user = u]]

\* cleanup_task: the sessions left when those older than SESSION_TTL at
\* time t (the start of the sweep) are removed
Unexpired(ss, t) ==
    [s \in DOMAIN ss |-> IF ss[s] # NoTs /\ t - ss[s] > SESSION_TTL THEN NoTs ELSE ss[s]]

\* The coroutine chain of task i returned to its outermost loop.
FinishAbortsScan(st, i) ==
    LET tk == st.tasks[i] IN
    IF tk.kind = "scan" /\ tk.todo # <<>> /\ tk.user = ""
    THEN BeginCheck([st EXCEPT !.tasks[i].todo = Tail(tk.todo)], i, Head(tk.todo))
    ELSE IF tk.kind = "sweep" /\ tk.todo # <<>>
    THEN BeginEnable([st EXCEPT !.tasks[i].todo = Tail(tk.todo)], i, Head(tk.todo))
    ELSE [st EXCEPT !.tasks[i] = Idle]
Finish(st, i) ==
    LET tk == st.tasks[i] IN
    IF tk.kind = "scan" /\ tk.todo # <<>>
    THEN BeginCheck([st EXCEPT !.tasks[i].todo = Tail(tk.todo)], i, Head(tk.todo))
    ELSE IF tk.kind = "sweep" /\ tk.todo # <<>>
    THEN BeginEnable([st EXCEPT !.tasks[i].todo = Tail(tk.todo)], i, Head(tk.todo))
    ELSE IF tk.kind = "sweep"
    THEN [st EXCEPT !.tasks[i] = Idle, !.cleanup_wake = now + CLEANUP_SLEEP_SECONDS,
                    !.sessions = Unexpired(@, tk.t0)]
    ELSE [st EXCEPT !.tasks[i] = Idle]

\* check_user -> get_user_limit up to the cache test
BeginCheck(st, i, u) ==
    IF CacheHit(st.limit_cache, u, now)
    THEN Decide(st, i, u, st.limit_cache[u][1])
    ELSE [st EXCEPT !.tasks[i] = [@ EXCEPT !.pc = "limit", !.user = u, !.t0 = now]]

\* check_user after get_user_limit returned
Decide(st, i, u, limit) ==
    IF limit <= 0
    THEN Finish([st EXCEPT !.hist.checks = @ \cup
                    {[user |-> u, limit |-> limit, emitted |-> FALSE]}], i)
    ELSE LET all_ips == GetUserIps(conns, u, now)
             viol == Cardinality(all_ips) > limit
             st1 == [st EXCEPT !.hist.checks = @ \cup
                        {[user |-> u, limit |-> limit, emitted |-> viol]}]
         IN  IF viol THEN HandleViolation(st1, i, u, all_ips, limit) ELSE Finish(st1, i)

\* handle_violation up to its first await (inside disable_user_subscription)
HandleViolation(st, i, u, ips, limit) ==
    IF InCooldown(st.drop_cooldown, u, now)
    THEN Finish([st EXCEPT !.hist.absTimes[u] = @ \cup {now}], i)
    ELSE [st EXCEPT !.drop_cooldown[u] = now,
                    !.hist.enfTimes[u] = Append(@, now),
                    !.tasks[i] = [@ EXCEPT !.pc = "uuid", !.op = "disable", !.user = u,
                                           !.ips = IpsToDrop(ips, limit)]]

\* what follows disable_user_subscription / enable_user_subscription
AfterApi(st, i) ==
    IF st.tasks[i].op = "disable"
    THEN [st EXCEPT !.tasks[i].pc = "drop"]
    ELSE Finish(st, i)

\* ------------------------------------------------------------------------
\* Controller: requests
\* ------------------------------------------------------------------------
\* POST /log: handle_log_single.  The body's secret is never read.
HandleLogSingle(slots, u, ip, node, secretOk) ==
    /\ reqCount < MaxRequests
    /\ IdleSlots(slots) # {}
    /\ reqCount' = reqCount + 1
    /\ conns' = DbAdd(conns, u, ip, node, now)
    /\ Commit([St0 EXCEPT !.tasks[FreeSlot(slots)] = [Idle EXCEPT !.kind = "check",
                                                       !.pc = "start", !.user = u],
                          !.hist.req = IF secretOk THEN "auth" ELSE "unauth"])
    /\ UNCHANGED <<now, disabled_users, disabled_file, log_state, cfgv, upstream, delivered>>

\* process_log_lines: the index of the first line equal to the marker of the
\* previous upload (0: no such line, or no marker)
RECURSIVE FirstMatch(_, _, _)
FirstMatch(lines, last_line, i) ==
    IF i > Len(lines) THEN 0
    ELSE IF lines[i] = last_line THEN i
    ELSE FirstMatch(lines, last_line, i + 1)

StartIdx(lines, last_line) ==
    IF last_line = NoLine THEN 0 ELSE FirstMatch(lines, last_line, 1)

\* the db.add of every parsed line after the marker, in order
RECURSIVE AddLines(_, _, _, _, _)
AddLines(c, lines, i, node, t) ==
    IF i > Len(lines) THEN c
    ELSE AddLines(IF lines[i].kind = "conn"
                  THEN DbAdd(c, lines[i].user, lines[i].ip, node, t) ELSE c,
                  lines, i + 1, node, t)

UsersToCheck(lines, from) ==
    {lines[i].user : i \in {j \in from .. Len(lines) : lines[j].kind = "conn"}}

\* asyncio.create_task(check_user(user)) for every user of users_to_check
RECURSIVE SpawnChecks(_, _, _)
SpawnChecks(tk, slots, users) ==
    IF users = {} THEN tk
    ELSE LET u == CHOOSE x \in users : TRUE
             free == {i \in slots : tk[i].kind = "idle"}
             i == CHOOSE x \in free : \A y \in free : x <= y
         IN  SpawnChecks([tk EXCEPT ![i] = [Idle EXCEPT !.kind = "check", !.pc = "start",
                                                       !.user = u]],
                         slots, users \ {u})

\* POST /log_upload: handle_log_upload -> process_log_lines
HandleLogUpload(slots, node, lines, secretOk) ==
    LET from == StartIdx(lines, log_state[node]) + 1
        users == UsersToCheck(lines, from) IN
    /\ reqCount < MaxRequests
    /\ reqCount' = reqCount + 1
    /\ IF ~secretOk
       THEN /\ Commit([St0 EXCEPT !.hist.req = "unauth"])
            /\ UNCHANGED <<conns, log_state>>
       ELSE /\ Cardinality(IdleSlots(slots)) >= Cardinality(users)
            /\ conns' = AddLines(conns, lines, from, node, now)
            /\ log_state' = IF lines = <<>> THEN log_state
                            ELSE [log_state EXCEPT ![node] = lines[Len(lines)]]
            /\ Commit([St0 EXCEPT !.tasks = SpawnChecks(@, slots, users),
                                  !.hist.req = "auth",
                                  !.hist.prev[node] =
                                      IF lines = <<>> THEN @
                                      ELSE {lines[j] : j \in {i \in 1 .. Len(lines) : lines[i].kind = "conn"}}])
    /\ UNCHANGED <<now, disabled_users, disabled_file, cfgv, upstream, delivered>>

\* POST /action/save_settings: SMART_DETECTION is written to .env
ActionSaveSettings(smart) ==
    /\ cfgv' = [cfgv EXCEPT !.smart = smart]
    /\ Commit(St0)
    /\ UNCHANGED <<now, conns, disabled_users, disabled_file, log_state, upstream,
                   delivered, reqCount>>

\* first run of a task made by asyncio.create_task(check_user(user))
TaskStart(i) ==
    /\ tasks[i].pc = "start"
    /\ Commit(BeginCheck(St0, i, tasks[i].user))
    /\ UNCHANGED <<now, conns, disabled_users, disabled_file, log_state, cfgv, upstream,
                   delivered, reqCount>>

\* scanner_task: the sleep is over, scan_all_users runs to its first await
ScannerTask(slots, order) ==
    /\ reqCount < MaxRequests
    /\ IdleSlots(slots) # {}
    /\ \A i \in slots : tasks[i].kind # "scan"
    /\ reqCount' = reqCount + 1
    /\ Commit(Finish([St0 EXCEPT !.tasks[FreeSlot(slots)] =
                        [Idle EXCEPT !.kind = "scan", !.todo = order]], FreeSlot(slots)))
    /\ UNCHANGED <<now, conns, disabled_users, disabled_file, log_state, cfgv, upstream, delivered>>

\* the GET of get_user_limit answered (ok: status 200)
LimitResp(i, ok) ==
    LET tk == tasks[i]
        u == tk.user
        limit == upstream[u].limit IN
    /\ tk.pc = "limit"
    /\ IF ok /\ upstream[u].known
       THEN Commit(Decide([St0 EXCEPT !.limit_cache[u] = <<limit, tk.t0>>], i, u, limit))
       ELSE Commit(Decide(St0, i, u, 0))
    /\ UNCHANGED <<now, conns, disabled_users, disabled_file, log_state, cfgv, upstream,
                   delivered, reqCount>>

\* the GET of get_user_uuid answered; with a uuid the POST is sent
UuidResp(i, ok) ==
    LET tk == tasks[i]
        u == tk.user IN
    /\ tk.pc = "uuid"
    /\ IF ok /\ upstream[u].known
       THEN Commit([St0 EXCEPT !.tasks[i].pc = "post",
                               !.hist.disPosts[u] =
                                   IF tk.op = "disable" /\ tk.kind \in AutoKinds
                                   THEN @ + 1 ELSE @])
       ELSE Commit(AfterApi(St0, i))
    /\ UNCHANGED <<now, conns, disabled_users, disabled_file, log_state, cfgv, upstream,
                   delivered, reqCount>>

\* save_disabled_users: the file holds the JSON object of disabled_users,
\* one member per subscriber in the map
SaveDisabledUsers(d) == {<<u, d[u]>> : u \in {x \in AllUsers : d[x] # NoTs}}

\* load_disabled_users: the map of the members of the file; no file, no entry
LoadDisabledUsersEmpty(f) == [u \in AllUsers |-> NoTs]
LoadDisabledUsers(f) ==
    [u \in AllUsers |-> IF \E m \in f : m[1] = u
                        THEN (CHOOSE m \in f : m[1] = u)[2] ELSE NoTs]

\* disabled_users after a POST answered 200: disable_user_subscription
\* writes the expiry, enable_user_subscription pops the entry
DisabledAfterNoPop(d, u, op) ==
    IF op = "disable" THEN [d EXCEPT ![u] = now + DISABLE_MINUTES * 60] ELSE d
DisabledAfter(d, u, op) ==
    [d EXCEPT ![u] = IF op = "disable" THEN now + DISABLE_MINUTES * 60 ELSE NoTs]

\* the POST of disable_user_subscription / enable_user_subscription was
\* carried out by the subscription API; its 200 is on the way back
PostServed(i) ==
    /\ tasks[i].pc = "post"
    /\ Commit([St0 EXCEPT !.tasks[i].pc = "served",
                          !.hist.apiCalls[tasks[i].user] = Append(@, tasks[i].op)])
    /\ UNCHANGED <<now, conns, disabled_users, disabled_file, log_state, cfgv, upstream,
                   delivered, reqCount>>

\* the POST of disable_user_subscription / enable_user_subscription answered
\* (with pc "post" the API carries the call out and answers in one step)
PostResp(i, ok) ==
    LET tk == tasks[i]
        u == tk.user IN
    /\ tk.pc \in {"post", "served"}
    /\ tk.pc = "served" => ok
    /\ IF ok
       THEN /\ disabled_users' = DisabledAfter(disabled_users, u, tk.op)
            /\ disabled_file' = SaveDisabledUsers(disabled_users')
            /\ Commit(AfterApi([St0 EXCEPT !.hist.apiCalls[u] =
                                   IF tk.pc = "post" THEN Append(@, tk.op) ELSE @], i))
       ELSE /\ UNCHANGED <<disabled_users, disabled_file>>
            /\ Commit(AfterApi(St0, i))
    /\ UNCHANGED <<now, conns, log_state, cfgv, upstream, delivered, reqCount>>

\* drop_ip_on_all_nodes: asyncio.gather runs one drop_one per configured
\* node; a drop_one whose POST fails or times out returns False and raises
\* nothing, so every node is sent its POST whatever the others answer
AttemptedUntilFailure(nodes, okNodes) ==
    IF okNodes = nodes THEN nodes ELSE {CHOOSE n \in nodes \ okNodes : TRUE}
Attempted(nodes, okNodes) == nodes

\* one drop_ip_on_all_nodes(ip) of the loop over ips_to_drop: the nodes in
\* okNodes answer 200, the others fail or time out
DropStep(i, nodes, okNodes) ==
    LET tk == tasks[i]
        u == tk.user
        ip == CHOOSE x \in tk.ips : TRUE
        rest == tk.ips \ {ip}
        sent == Attempted(nodes, okNodes)
        st1 == [St0 EXCEPT !.tasks[i].ips = rest,
                           !.hist.posts = [x \in AllIPs \X AllNodes |->
                               IF x[1] = ip /\ x[2] \in sent THEN @[x] + 1 ELSE @[x]]] IN
    /\ tk.pc = "drop"
    /\ okNodes \subseteq nodes
    /\ delivered' = delivered \cup {<<ip, n>> : n \in okNodes \cap sent}
    /\ IF rest = {}
       THEN Commit(Finish([st1 EXCEPT !.hist.fanouts[u] =
                              IF tk.kind \in AutoKinds THEN @ + 1 ELSE @], i))
       ELSE Commit(st1)
    /\ UNCHANGED <<now, conns, disabled_users, disabled_file, log_state, cfgv, upstream, reqCount>>

\* cleanup_task: the sleep is over; prune the index, then enable every
\* expired entry of the snapshot list(disabled_users.items()), one await
\* after the other, and sleep again
CleanupTask(slots, order) ==
    /\ now >= cleanup_wake
    /\ IdleSlots(slots) # {}
    /\ \A i \in slots : tasks[i].kind # "sweep"
    /\ conns' = DbCleanup(conns, now)
    /\ Commit(Finish([St0 EXCEPT !.tasks[FreeSlot(slots)] =
                        [Idle EXCEPT !.kind = "sweep", !.todo = order, !.t0 = now]],
                     FreeSlot(slots)))
    /\ UNCHANGED <<now, disabled_users, disabled_file, log_state, cfgv, upstream, delivered,
                   reqCount>>

\* POST /action/drop_user
ActionDropUser(slots, u) ==
    LET ips == GetUserIps(conns, u, now) IN
    /\ reqCount < MaxRequests
    /\ IdleSlots(slots) # {}
    /\ reqCount' = reqCount + 1
    /\ IF ips # {}
       THEN Commit([St0 EXCEPT !.tasks[FreeSlot(slots)] =
                        [Idle EXCEPT !.kind = "drop", !.pc = "uuid", !.op = "disable",
                                     !.user = u, !.ips = ips],
                               !.hist.manual = @ + 1])
       ELSE Commit([St0 EXCEPT !.hist.manual = @ + 1])
    /\ UNCHANGED <<now, conns, disabled_users, disabled_file, log_state, cfgv, upstream, delivered>>

\* POST /action/unban_user
ActionUnbanUser(slots, u) ==
    /\ reqCount < MaxRequests
    /\ IdleSlots(slots) # {}
    /\ reqCount' = reqCount + 1
    /\ Commit(BeginEnable([St0 EXCEPT !.tasks[FreeSlot(slots)] = [Idle EXCEPT !.kind = "unban"],
                                      !.hist.manual = @ + 1], FreeSlot(slots), u))
    /\ UNCHANGED <<now, conns, disabled_users, disabled_file, log_state, cfgv, upstream, delivered>>

\* check_auth: the request's session cookie is a key of sessions
CheckAuth(ss, cookie) == cookie \in DOMAIN ss /\ ss[cookie] # NoTs

\* POST /: handle_login.  With the right password a fresh session id is
\* stored with the time of the login and sent back as the cookie.
HandleLogin(sid, pwOk) ==
    /\ sessions[sid] = NoTs
    /\ Commit(IF pwOk THEN [St0 EXCEPT !.sessions[sid] = now] ELSE St0)
    /\ UNCHANGED <<now, conns, disabled_users, disabled_file, log_state, cfgv, upstream,
                   delivered, reqCount>>

\* POST /action/clear_db: action_clear_db, requested with the session cookie
\* cookie ("": none).  The handler does not read the cookie; hist.req
\* records what check_auth would have said of the request.
ActionClearDb(cookie) ==
    /\ conns' = [u \in AllUsers |-> [ip \in AllIPs |-> NoConn]]
    /\ Commit([St0 EXCEPT !.hist.req = IF CheckAuth(sessions, cookie) THEN "admin" ELSE "anon"])
    /\ UNCHANGED <<now, disabled_users, disabled_file, log_state, cfgv, upstream,
                   delivered, reqCount>>

\* The clock moves on to a later instant.  A pending await ends within the
\* client's total timeout, so a longer jump needs every coroutine finished.
Tick(instants) ==
    /\ \E t \in instants :
          /\ t > now
          /\ t - now <= HTTP_TOTAL_TIMEOUT \/ \A i \in DOMAIN tasks : tasks[i].kind = "idle"
          /\ now' = t
    /\ Commit(St0)
    /\ UNCHANGED <<conns, disabled_users, disabled_file, log_state, cfgv, upstream,
                   delivered, reqCount>>

\* The controller process is stopped and started again: the module-level
\* state is built anew (the index is an in-memory database, the caches are
\* empty, no coroutine survives), disabled_users is read from its file;
\* .env and .log_state.json are files and keep their contents.
Restart ==
    /\ disabled_users' = LoadDisabledUsers(disabled_file)
    /\ conns' = [u \in AllUsers |-> [ip \in AllIPs |-> NoConn]]
    /\ Commit([St0 EXCEPT !.tasks = [i \in DOMAIN tasks |-> Idle],
                          !.limit_cache = [u \in AllUsers |-> NoLimit],
                          !.drop_cooldown = [u \in AllUsers |-> NoTs],
                          !.cleanup_wake = now + CLEANUP_SLEEP_SECONDS,
                          !.sessions = [s \in Sids |-> NoTs],
                          !.hist.boot = now])
    /\ UNCHANGED <<now, disabled_file, log_state, cfgv, upstream, delivered, reqCount>>

\* ------------------------------------------------------------------------
\* Orders in which a loop may meet the members of a set
\* ------------------------------------------------------------------------
RECURSIVE Orders(_)
Orders(S) ==
    IF S = {} THEN {<<>>}
    ELSE UNION {{<<x>> \o o : o \in Orders(S \ {x})} : x \in S}

\* ------------------------------------------------------------------------
\* The periodic checker (checker.py over database.py and remnawave_api.py).
\* chk.pc is the await at which run_check_cycle is suspended:
\*   "sleep"       asyncio.sleep between two cycles (until chk.wake)
\*   "unb_uuid"    unblock_expired awaits get_user_uuid
\*   "unb_enable"  unblock_expired awaits enable_user
\*   "limit"       check_user awaits get_user_device_limit
\*   "kick"        check_user awaits kick_ips_from_all_nodes
\*   "uuid"        check_user awaits get_user_uuid (and get_user_status)
\*   "disable"     check_user awaits disable_user
\* chk.table tells whether the blocked_users table exists in the database
\* file (init_db does not create it); chk.kick is KICK_IPS_ON_VIOLATION;
\* chk.window is the IP_WINDOW_SECONDS the process was started with.
\* ------------------------------------------------------------------------
ChkStart(table, kick) ==
    [table |-> table, kick |-> kick, window |-> CHK_IP_WINDOW_SECONDS, rows |-> {},
     blocked |-> [u \in AllUsers |-> NoTs],
     violation_counts |-> [u \in AllUsers |-> 0],
     pc |-> "sleep", user |-> "", ips |-> {}, todo |-> <<>>, utodo |-> <<>>,
     cycles |-> 0, wake |-> 0,
     confirmed |-> [u \in AllUsers |-> 0],
     kicks |-> {},
     disables |-> [u \in AllUsers |-> 0],
     enables |-> [u \in AllUsers |-> 0]]

GetUniqueIps(rows, u, t) ==
    {r.ip : r \in {x \in rows : x.user = u /\ x.ts > t - chk.window}}

GetAllActiveUsers(rows, t) ==
    {r.user : r \in {x \in rows : x.ts > t - chk.window}}

IsUserBlocked(blocked, u, t) == blocked[u] # NoTs /\ blocked[u] > t

GetUsersToUnblock(blocked, t) == {u \in AllUsers : blocked[u] # NoTs /\ blocked[u] <= t}

CleanupOldConnections(rows, t, max_age) == {r \in rows : ~(r.ts < t - max_age)}

\* get_user_device_limit: found says whether get_user_by_username returned
\* the user, limit is its hwidDeviceLimit (0: unset)
GetUserDeviceLimit(found, limit) ==
    IF found
    THEN IF limit > 0 THEN limit ELSE LIMIT_WHEN_UNSET
    ELSE LIMIT_WHEN_NO_USER

\* run_check_cycle from the loop over active_users on, up to the next await
RECURSIVE ChkNextUser(_, _)
ChkNextUser(c, t) ==
    IF c.todo = <<>>
    THEN [c EXCEPT !.rows = CleanupOldConnections(@, t, CLEANUP_MAX_AGE_SECONDS),
                   !.pc = "sleep", !.user = "", !.ips = {},
                   !.wake = t + CHECK_INTERVAL_SECONDS]
    ELSE LET u == Head(c.todo)
             c1 == [c EXCEPT !.todo = Tail(@)]
             unique_ips == GetUniqueIps(c.rows, u, t)
         IN  IF IsUserBlocked(c.blocked, u, t) \/ unique_ips = {}
             THEN ChkNextUser([c1 EXCEPT !.violation_counts[u] = 0], t)
             ELSE [c1 EXCEPT !.pc = "limit", !.user = u, !.ips = unique_ips]

\* unblock_expired from its loop on, up to the next await; order is the list
\* get_all_active_users() returns once the loop is over
ChkNextUnblock(c, t, order) ==
    IF c.utodo = <<>>
    THEN ChkNextUser([c EXCEPT !.todo = order], t)
    ELSE [c EXCEPT !.pc = "unb_uuid", !.user = Head(c.utodo), !.utodo = Tail(@)]

\* log_connection: a connection reported by a node is stored
LogConnection(u, ip) ==
    /\ chk' = [chk EXCEPT !.rows = @ \cup {[user |-> u, ip |-> ip, ts |-> now]}]
    /\ UNCHANGED <<ctlVars, ag, ls>>

\* the sleep of start() is over: run_check_cycle begins.  Without the
\* blocked_users table get_users_to_unblock raises and the cycle is given up.
ChkCycleStart(uorder, order) ==
    /\ chk.pc = "sleep"
    /\ chk.cycles < MaxCycles
    /\ now >= chk.wake
    /\ IF chk.table
       THEN chk' = ChkNextUnblock([chk EXCEPT !.cycles = @ + 1, !.utodo = uorder], now, order)
       ELSE chk' = [chk EXCEPT !.cycles = @ + 1, !.wake = now + CHECK_INTERVAL_SECONDS]
    /\ UNCHANGED <<ctlVars, ag, ls>>

\* unblock_expired: get_user_uuid answered
ChkUnblockUuid(ok, order) ==
    /\ chk.pc = "unb_uuid"
    /\ IF ok /\ upstream[chk.user].known
       THEN chk' = [chk EXCEPT !.pc = "unb_enable"]
       ELSE chk' = ChkNextUnblock([chk EXCEPT !.blocked[chk.user] = NoTs], now, order)
    /\ UNCHANGED <<ctlVars, ag, ls>>

\* unblock_expired: enable_user answered
ChkUnblockEnable(ok, order) ==
    /\ chk.pc = "unb_enable"
    /\ IF ok
       THEN chk' = ChkNextUnblock([chk EXCEPT !.blocked[chk.user] = NoTs,
                                              !.enables[chk.user] = @ + 1], now, order)
       ELSE chk' = ChkNextUnblock(chk, now, order)
    /\ UNCHANGED <<ctlVars, ag, ls>>

\* check_user: get_user_device_limit answered (ok: the user lookup did not fail)
ChkLimitRespKeepsCount(ok) ==
    LET u == chk.user
        device_limit == GetUserDeviceLimit(ok /\ upstream[u].known, upstream[u].limit)
        current_count == chk.violation_counts[u] + 1 IN
    /\ chk.pc = "limit"
    /\ IF Cardinality(chk.ips) > device_limit
       THEN IF current_count < VIOLATION_CONFIRM_COUNT
            THEN chk' = ChkNextUser([chk EXCEPT !.violation_counts[u] = current_count], now)
            ELSE chk' = [chk EXCEPT !.violation_counts[u] = 0,
                                    !.confirmed[u] = @ + 1,
                                    !.pc = IF chk.kick THEN "kick" ELSE "uuid"]
       ELSE chk' = ChkNextUser(chk, now)
    /\ UNCHANGED <<ctlVars, ag, ls>>
ChkLimitResp(ok) ==
    LET u == chk.user
        device_limit == GetUserDeviceLimit(ok /\ upstream[u].known, upstream[u].limit)
        current_count == chk.violation_counts[u] + 1 IN
    /\ chk.pc = "limit"
    /\ IF Cardinality(chk.ips) > device_limit
       THEN IF current_count < VIOLATION_CONFIRM_COUNT
            THEN chk' = ChkNextUser([chk EXCEPT !.violation_counts[u] = current_count], now)
            ELSE chk' = [chk EXCEPT !.violation_counts[u] = 0,
                                    !.confirmed[u] = @ + 1,
                                    !.pc = IF chk.kick THEN "kick" ELSE "uuid"]
       ELSE chk' = ChkNextUser([chk EXCEPT !.violation_counts[u] = 0], now)
    /\ UNCHANGED <<ctlVars, ag, ls>>

\* check_user: kick_ips_from_all_nodes is over; the nodes of okNodes answered 200
ChkKick(okNodes) ==
    /\ chk.pc = "kick"
    /\ chk' = [chk EXCEPT !.kicks = @ \cup {<<ip, n>> : ip \in chk.ips, n \in okNodes},
                          !.pc = "uuid"]
    /\ UNCHANGED <<ctlVars, ag, ls>>

\* check_user: get_user_uuid (and get_user_status) answered
ChkUuidResp(ok) ==
    /\ chk.pc = "uuid"
    /\ IF ok /\ upstream[chk.user].known
       THEN chk' = [chk EXCEPT !.pc = "disable"]
       ELSE chk' = ChkNextUser(chk, now)
    /\ UNCHANGED <<ctlVars, ag, ls>>

\* check_user: disable_user answered; on success add_blocked_user
ChkDisableResp(ok) ==
    /\ chk.pc = "disable"
    /\ IF ok
       THEN chk' = ChkNextUser([chk EXCEPT !.blocked[chk.user] = now + BLOCK_DURATION_SECONDS,
                                           !.disables[chk.user] = @ + 1], now)
       ELSE chk' = ChkNextUser(chk, now)
    /\ UNCHANGED <<ctlVars, ag, ls>>

\* ------------------------------------------------------------------------
\* The real-time log server (log_server.py over database.py).  ls.tasks are
\* the check_and_drop coroutines made by asyncio.create_task: "start" not
\* yet run, "limit" suspended in get_user_limit; n is the ip_count and t0
\* the now they took before suspending.  ls.drops[u] lists the times at
\* which a drop fan-out for u was issued.
\* ------------------------------------------------------------------------
\* get_unique_ips_for_user: the distinct IPs of the user inside the IP window
GetUniqueIpsForUser(rows, u, t) == GetUniqueIps(rows, u, t)

\* POST /log_batch: every connection of the batch is stored and given a
\* check_and_drop task
HandleLogBatch(batch) ==
    LET idle == {i \in DOMAIN ls.tasks : ls.tasks[i].pc = "idle"}
        slot == CHOOSE f \in [1 .. Len(batch) -> idle] :
                    \A j, k \in 1 .. Len(batch) : j < k => f[j] < f[k] IN
    /\ batch # <<>>
    /\ ls.reqs < MaxRequests
    /\ Cardinality(idle) >= Len(batch)
    /\ chk' = [chk EXCEPT !.rows = @ \cup
                  {[user |-> batch[j].user, ip |-> batch[j].ip, ts |-> now] :
                       j \in 1 .. Len(batch)}]
    /\ ls' = [ls EXCEPT !.reqs = @ + 1,
                        !.tasks = [i \in DOMAIN ls.tasks |->
                            IF \E j \in 1 .. Len(batch) : slot[j] = i
                            THEN LET j == CHOOSE j \in 1 .. Len(batch) : slot[j] = i IN
                                 [pc |-> "start", user |-> batch[j].user, ip |-> batch[j].ip,
                                  n |-> 0, t0 |-> NoTs]
                            ELSE ls.tasks[i]]]
    /\ UNCHANGED <<ctlVars, ag>>

\* check_and_drop: task i runs up to its next suspension.  From "start": the
\* test of _recently_dropped, the count of the IPs, get_user_limit up to its
\* request (or through it on a cache hit).  From "limit": the request is
\* answered (ok: with 200), the limit is cached and compared.
CheckAndDrop(i, ok) ==
    LET tk == ls.tasks[i]
        u == tk.user
        done == [ls EXCEPT !.tasks[i].pc = "idle"]
        Compare(l, n, t, from) ==
            IF l <= 0 \/ n <= l
            THEN [from EXCEPT !.tasks[i].pc = "idle"]
            ELSE [from EXCEPT !.tasks[i].pc = "idle",
                              !.recently_dropped[u] = t,
                              !.drops[u] = Append(@, now)] IN
    /\ tk.pc \in {"start", "limit"}
    /\ IF tk.pc = "start"
       THEN LET n == Cardinality(GetUniqueIpsForUser(chk.rows, u, now)) IN
            ls' = IF ls.recently_dropped[u] # NoTs
                       /\ now - ls.recently_dropped[u] < RECENTLY_DROPPED_SECONDS
                  THEN done
                  ELSE IF n <= 1 THEN done
                  ELSE IF ls.limit_cache[u] # NoLimit /\ now - ls.limit_cache[u][2] < CACHE_TTL
                  THEN Compare(ls.limit_cache[u][1], n, now, ls)
                  ELSE [ls EXCEPT !.tasks[i] = [@ EXCEPT !.pc = "limit", !.n = n, !.t0 = now]]
       ELSE ls' = IF ok /\ upstream[u].known
                  THEN Compare(upstream[u].limit, tk.n, tk.t0,
                               [ls EXCEPT !.limit_cache[u] = <<upstream[u].limit, tk.t0>>])
                  ELSE done
    /\ UNCHANGED <<ctlVars, chk, ag>>

\* ------------------------------------------------------------------------
\* The agents.  A block key is an IP with an optional source port; the INPUT
\* chain is a bag of DROP rules, ag.fw[k] copies of the rule of key k.
\* ag.h is the HTTP handler thread (HTTPServer serves one request at a time),
\* ag.s the sweep thread; one step is one iptables command or one region
\* under the lock.
\* ------------------------------------------------------------------------
NoPort == 0
Key(ip, port) == [ip |-> ip, port |-> port]
AllKeys == {Key(IP11, NoPort), Key(IP21, NoPort), Key(IP11, 5555)}

HIdle == [pc |-> "idle", key |-> Key(IP11, NoPort), dur |-> 0, todo |-> <<>>]
SAsleep(wake) == [pc |-> "sleep", todo |-> <<>>, wake |-> wake]

\* do_POST: data.get('secret') != API_SECRET; secretOk says whether the
\* secret of the request is the agent's
RejectedNever(secretOk) == FALSE
Rejected(secretOk) == ~secretOk

\* the last response of do_POST: the request it answers and its status
Resp(op, k, status) == [op |-> op, key |-> k, status |-> status]

\* The upload pipeline of node.py.  The access log is a sequence of lines,
\* line n being the n-th line ever written; path is the file LOG_PATH names,
\* files[id] the contents of the file of identity id; tid and tpos are the
\* identity of the file tail_log holds open and its offset in it (in
\* lines); truncated holds the files that were truncated; pending is
\* pending_entries.  An entry is the number n of the line it was parsed
\* from, or -n if it was parsed from a fragment of line n.  frag is the line
\* of which the file holds an unterminated fragment at its end (0: none),
\* fragTok tells whether the fragment ends inside the subscriber token, half
\* is the line whose fragment tail_log has consumed.  lock is the holder of
\* pending_lock and sending the batch whose POST is in flight.  read[n],
\* enq[n] and posted[n] count how often line n was read to its end, how
\* often an entry was made of the whole line and how often it was posted;
\* status is the status of the last POST (0: none yet, or no reply).
LineNos == 1 .. MaxLogLines
FileIds == 1 .. MaxFiles

UpStart ==
    [path |-> 1,
     files |-> [id \in FileIds |-> <<>>],
     written |-> 0,
     truncated |-> {},
     tid |-> 1,
     tpos |-> 0,
     frag |-> 0,
     fragTok |-> FALSE,
     half |-> 0,
     pending |-> <<>>,
     lock |-> "free",
     sending |-> <<>>,
     read |-> [n \in LineNos |-> 0],
     enq |-> [n \in LineNos |-> 0],
     posted |-> [n \in LineNos |-> 0],
     status |-> 0]

AgStart ==
    [up |-> UpStart,
     fw |-> [k \in AllKeys |-> 0],
     blocked_ips |-> [k \in AllKeys |-> NoTs],
     h |-> HIdle,
     s |-> SAsleep(0),
     reqs |-> 0,
     answered |-> [k \in AllKeys |-> 0],
     secretOk |-> TRUE,
     resp |-> Resp("none", Key(IP11, NoPort), 0)]

\* iptables -C INPUT <match of k> -j DROP: return code 0 iff the chain holds
\* the rule.  withProto: the match names "-p tcp"; a --sport without it is a
\* usage error (return code 2) whatever the chain holds.
IptablesCheck(fw, k, withProto) ==
    IF k.port # NoPort /\ ~withProto THEN FALSE ELSE fw[k] > 0

\* iptables -I / -A INPUT <match of k> -j DROP: one more copy of the rule
IptablesAdd(fw, k) == [fw EXCEPT ![k] = @ + 1]

\* iptables -D INPUT <match of k> -j DROP: one copy less; an error, and no
\* change, if there is none
IptablesDelete(fw, k) == [fw EXCEPT ![k] = IF @ > 0 THEN @ - 1 ELSE 0]

Expired(blocked, t) == {k \in AllKeys : blocked[k] # NoTs /\ t >= blocked[k]}

RemoveKeys(blocked, ks) == [k \in AllKeys |-> IF k \in ks THEN NoTs ELSE blocked[k]]

\* --- node.py ---
\* POST /block: do_POST up to the first iptables command of block_ip
NdBlockReq(k, duration, secretOk) ==
    /\ ag.h.pc = "idle"
    /\ ag.reqs < MaxAgentReqs
    /\ ag' = [ag EXCEPT !.reqs = @ + 1,
                        !.secretOk = secretOk,
                        !.h = IF ~Rejected(secretOk)
                              THEN [HIdle EXCEPT !.pc = "check", !.key = k, !.dur = duration]
                              ELSE HIdle,
                        !.resp = IF ~Rejected(secretOk) THEN @ ELSE Resp("block", k, 403)]
    /\ UNCHANGED <<ctlVars, chk, ls>>

\* block_ip: iptables -C
NdBlockCheck ==
    /\ ag.h.pc = "check"
    /\ ag' = [ag EXCEPT !.h.pc = IF IptablesCheck(ag.fw, ag.h.key, TRUE)
                                 THEN "register" ELSE "insert"]
    /\ UNCHANGED <<ctlVars, chk, ls>>

\* block_ip: subprocess.run(..., check=True) raises, the except clause
\* returns False before blocked_ips is written, do_POST answers 400
BlockFailedRecords(a) ==
    [a EXCEPT !.blocked_ips[a.h.key] = now + a.h.dur,
              !.h = HIdle, !.resp = Resp("block", a.h.key, 400)]
BlockFailed(a) == [a EXCEPT !.h = HIdle, !.resp = Resp("block", a.h.key, 400)]

\* block_ip: iptables -I with check=True
NdBlockInsert(ok) ==
    /\ ag.h.pc = "insert"
    /\ ag' = IF ok
             THEN [ag EXCEPT !.fw = IptablesAdd(@, ag.h.key), !.h.pc = "register"]
             ELSE BlockFailed(ag)
    /\ UNCHANGED <<ctlVars, chk, ls>>

\* block_ip: blocked_ips[ip] = time.time() + duration under the lock; 200
NdBlockRegister ==
    /\ ag.h.pc = "register"
    /\ ag' = [ag EXCEPT !.blocked_ips[ag.h.key] = now + ag.h.dur,
                        !.answered[ag.h.key] = @ + 1,
                        !.resp = Resp("block", ag.h.key, 200),
                        !.h = HIdle]
    /\ UNCHANGED <<ctlVars, chk, ls>>

\* POST /unblock: do_POST up to the iptables command of unblock_ip
NdUnblockReq(k, secretOk) ==
    /\ ag.h.pc = "idle"
    /\ ag.reqs < MaxAgentReqs
    /\ ag' = [ag EXCEPT !.reqs = @ + 1,
                        !.secretOk = secretOk,
                        !.h = IF ~Rejected(secretOk)
                              THEN [HIdle EXCEPT !.pc = "unb_delete", !.key = k]
                              ELSE HIdle,
                        !.resp = IF ~Rejected(secretOk) THEN @ ELSE Resp("unblock", k, 403)]
    /\ UNCHANGED <<ctlVars, chk, ls>>

\* unblock_ip: iptables -D, its outcome ignored (no check=True, the return
\* code is not read); ok: the command did what it was asked to do
NdUnblockDelete(ok) ==
    /\ ag.h.pc = "unb_delete"
    /\ ag' = [ag EXCEPT !.fw = IF ok THEN IptablesDelete(@, ag.h.key) ELSE @,
                        !.h.pc = "unb_pop"]
    /\ UNCHANGED <<ctlVars, chk, ls>>

\* do_POST: blocked_ips.pop(ip, None) under the lock; 200
NdUnblockPop ==
    /\ ag.h.pc = "unb_pop"
    /\ ag' = [ag EXCEPT !.blocked_ips[ag.h.key] = NoTs,
                        !.resp = Resp("unblock", ag.h.key, 200),
                        !.h = HIdle]
    /\ UNCHANGED <<ctlVars, chk, ls>>

\* POST /clear: the lock is taken, the keys of blocked_ips are listed
NdClearReq(order, secretOk) ==
    /\ ag.h.pc = "idle"
    /\ ag.reqs < MaxAgentReqs
    /\ ag' = [ag EXCEPT !.reqs = @ + 1,
                        !.secretOk = secretOk,
                        !.h = IF ~Rejected(secretOk)
                              THEN [HIdle EXCEPT !.pc = "clear", !.todo = order]
                              ELSE HIdle,
                        !.resp = IF ~Rejected(secretOk) THEN @ ELSE Resp("clear", HIdle.key, 403)]
    /\ UNCHANGED <<ctlVars, chk, ls>>

\* /clear: one unblock_ip of the loop, or blocked_ips.clear() and the release
\* of the lock when the loop is over
NdClearStep ==
    /\ ag.h.pc = "clear"
    /\ ag' = IF ag.h.todo # <<>>
             THEN [ag EXCEPT !.fw = IptablesDelete(@, Head(ag.h.todo)), !.h.todo = Tail(@)]
             ELSE [ag EXCEPT !.blocked_ips = [k \in AllKeys |-> NoTs],
                             !.resp = Resp("clear", HIdle.key, 200),
                             !.h = HIdle]
    /\ UNCHANGED <<ctlVars, chk, ls>>

\* cleanup_loop: the sleep is over; under the lock the expired keys leave
\* blocked_ips (order: the order of to_unblock)
NdSweepCollect(order) ==
    /\ ag.s.pc = "sleep"
    /\ now >= ag.s.wake
    /\ ag.h.pc # "clear"
    /\ ag' = [ag EXCEPT !.blocked_ips = RemoveKeys(@, Expired(ag.blocked_ips, now)),
                        !.s = IF order = <<>> THEN SAsleep(now + SWEEP_SLEEP_SECONDS)
                              ELSE [pc |-> "delete", todo |-> order, wake |-> NoTs]]
    /\ UNCHANGED <<ctlVars, chk, ls>>

\* cleanup_loop: one unblock_ip of the loop over to_unblock
NdSweepDelete(ok) ==
    /\ ag.s.pc = "delete"
    /\ ag' = [ag EXCEPT !.fw = IF ok THEN IptablesDelete(@, Head(ag.s.todo)) ELSE @,
                        !.s = IF Len(ag.s.todo) = 1 THEN SAsleep(now + SWEEP_SLEEP_SECONDS)
                              ELSE [ag.s EXCEPT !.todo = Tail(@)]]
    /\ UNCHANGED <<ctlVars, chk, ls>>

\* --- node_reporter.py ---
\* POST /block_ip: do_POST up to the first iptables command of block_ip
RpBlockReq(k, duration, secretOk) ==
    /\ ag.h.pc = "idle"
    /\ ag.reqs < MaxAgentReqs
    /\ ag' = [ag EXCEPT !.reqs = @ + 1,
                        !.secretOk = secretOk,
                        !.h = IF ~Rejected(secretOk)
                              THEN [HIdle EXCEPT !.pc = "check", !.key = k, !.dur = duration]
                              ELSE HIdle,
                        !.resp = IF ~Rejected(secretOk) THEN @ ELSE Resp("block", k, 403)]
    /\ UNCHANGED <<ctlVars, chk, ls>>

\* block_ip: check_cmd.  With a port it is
\* iptables -C INPUT -s ip --sport port -j DROP, without "-p tcp".
RpBlockCheck ==
    /\ ag.h.pc = "check"
    /\ ag' = [ag EXCEPT !.h.pc = IF IptablesCheck(ag.fw, ag.h.key, FALSE)
                                 THEN "register" ELSE "add"]
    /\ UNCHANGED <<ctlVars, chk, ls>>

\* block_ip: add_cmd (iptables -A) with check=True; a failure raises, 500
RpBlockAdd(ok) ==
    /\ ag.h.pc = "add"
    /\ ag' = IF ok
             THEN [ag EXCEPT !.fw = IptablesAdd(@, ag.h.key), !.h.pc = "register"]
             ELSE [ag EXCEPT !.h = HIdle, !.resp = Resp("block", ag.h.key, 500)]
    /\ UNCHANGED <<ctlVars, chk, ls>>

\* block_ip: blocked_ips[block_key] = time.time() + duration under the lock; 200
RpBlockRegister ==
    /\ ag.h.pc = "register"
    /\ ag' = [ag EXCEPT !.blocked_ips[ag.h.key] = now + ag.h.dur,
                        !.answered[ag.h.key] = @ + 1,
                        !.resp = Resp("block", ag.h.key, 200),
                        !.h = HIdle]
    /\ UNCHANGED <<ctlVars, chk, ls>>

\* POST /unblock_ip: do_POST up to the iptables command of unblock_ip
RpUnblockReq(k, secretOk) ==
    /\ ag.h.pc = "idle"
    /\ ag.reqs < MaxAgentReqs
    /\ ag' = [ag EXCEPT !.reqs = @ + 1,
                        !.secretOk = secretOk,
                        !.h = IF ~Rejected(secretOk)
                              THEN [HIdle EXCEPT !.pc = "unb_delete", !.key = k]
                              ELSE HIdle,
                        !.resp = IF ~Rejected(secretOk) THEN @ ELSE Resp("unblock", k, 403)]
    /\ UNCHANGED <<ctlVars, chk, ls>>

\* unblock_ip: iptables -D (with "-p tcp" for a port) with check=True; a
\* failure (ok = FALSE) is caught, unblock_ip returns False and do_POST
\* ignores the value
RpUnblockDelete(ok) ==
    /\ ag.h.pc = "unb_delete"
    /\ ag' = [ag EXCEPT !.fw = IF ok THEN IptablesDelete(@, ag.h.key) ELSE @,
                        !.h.pc = "unb_pop"]
    /\ UNCHANGED <<ctlVars, chk, ls>>

\* do_POST: blocked_ips.pop(block_key, None) under the lock; 200
RpUnblockPop ==
    /\ ag.h.pc = "unb_pop"
    /\ ag' = [ag EXCEPT !.blocked_ips[ag.h.key] = NoTs,
                        !.resp = Resp("unblock", ag.h.key, 200),
                        !.h = HIdle]
    /\ UNCHANGED <<ctlVars, chk, ls>>

\* cleanup_expired_blocks: under the lock the expired keys leave blocked_ips
RpSweepCollect(order) ==
    /\ ag.s.pc = "sleep"
    /\ now >= ag.s.wake
    /\ ag' = [ag EXCEPT !.blocked_ips = RemoveKeys(@, Expired(ag.blocked_ips, now)),
                        !.s = IF order = <<>> THEN SAsleep(now + READ_INTERVAL)
                              ELSE [pc |-> "delete", todo |-> order, wake |-> NoTs]]
    /\ UNCHANGED <<ctlVars, chk, ls>>

\* cleanup_expired_blocks: one unblock_ip of the loop over to_unblock
RpSweepDelete(ok) ==
    /\ ag.s.pc = "delete"
    /\ ag' = [ag EXCEPT !.fw = IF ok THEN IptablesDelete(@, Head(ag.s.todo)) ELSE @,
                        !.s = IF Len(ag.s.todo) = 1 THEN SAsleep(now + READ_INTERVAL)
                              ELSE [ag.s EXCEPT !.todo = Tail(@)]]
    /\ UNCHANGED <<ctlVars, chk, ls>>

\* --- node.py: the log tailer and the batch sender ---
BATCH_SIZE == 2

\* parse_line: the (user, ip) of the connection line n; of a fragment of
\* it that ends inside the subscriber token, the token as far as it goes
ParseLine(n) ==
    [user |-> IF n > 0 THEN "alice" ELSE "ali",
     ip |-> IF n % 2 = 1 THEN IP11 ELSE IP21]

\* the proxy appends a line to the file LOG_PATH names, or the rest of the
\* line it has begun
LogWrite ==
    /\ ag.up.written < MaxLogLines
    /\ ag' = [ag EXCEPT !.up.written = @ + 1,
                        !.up.files[ag.up.path] = Append(@, ag.up.written + 1),
                        !.up.frag = 0]
    /\ UNCHANGED <<ctlVars, chk, ls>>

\* the proxy's write of a line reaches the file in two parts: the first part
\* is there, without a newline (inToken: it ends inside the subscriber
\* token, after the address; otherwise before the token)
LogWriteFragment(inToken) ==
    /\ ag.up.written < MaxLogLines
    /\ ag.up.frag = 0
    /\ ag' = [ag EXCEPT !.up.frag = ag.up.written + 1, !.up.fragTok = inToken]
    /\ UNCHANGED <<ctlVars, chk, ls>>

\* the file is truncated in place (copytruncate): same identity, size 0
LogTruncate ==
    /\ ag.up.files[ag.up.path] # <<>>
    /\ ag.up.frag = 0
    /\ ag' = [ag EXCEPT !.up.files[ag.up.path] = <<>>,
                        !.up.truncated = @ \cup {ag.up.path}]
    /\ UNCHANGED <<ctlVars, chk, ls>>

\* the file is renamed and a new, empty file takes its name
LogRotate ==
    /\ ag.up.path < MaxFiles
    /\ ag.up.frag = 0
    /\ ag' = [ag EXCEPT !.up.path = @ + 1]
    /\ UNCHANGED <<ctlVars, chk, ls>>

\* tail_log, one turn of its loop that does something.  readline returns
\* what the file holds from the offset on, up to a newline or to the end of
\* the file: a line (or the rest of a line whose fragment was consumed), or
\* a fragment; parse_line is applied to it and an entry is appended to
\* pending_entries under pending_lock.  Or readline returns nothing and
\* os.stat(LOG_PATH) shows another inode, and the new file is opened (at
\* offset 0).  Nothing else is tested at end of file.
TailLogKeepsOffset ==
    LET up == ag.up IN
    /\ IF up.tpos < Len(up.files[up.tid])
       THEN LET n == up.files[up.tid][up.tpos + 1] IN
            IF up.half = n
            THEN ag' = [ag EXCEPT !.up.tpos = @ + 1, !.up.half = 0, !.up.read[n] = @ + 1]
            ELSE /\ up.lock = "free"
                 /\ ag' = [ag EXCEPT !.up.tpos = @ + 1,
                                     !.up.pending = Append(@, n),
                                     !.up.read[n] = @ + 1,
                                     !.up.enq[n] = @ + 1]
       ELSE IF up.tid = up.path /\ up.tpos = Len(up.files[up.tid])
               /\ up.frag # 0 /\ up.half # up.frag
            THEN /\ up.fragTok => up.lock = "free"
                 /\ ag' = [ag EXCEPT !.up.half = up.frag,
                                     !.up.pending = IF up.fragTok
                                                    THEN Append(@, 0 - up.frag) ELSE @]
            ELSE /\ up.path # up.tid
                 /\ ag' = [ag EXCEPT !.up.tid = up.path]
    /\ UNCHANGED <<ctlVars, chk, ls>>
TailLog ==
    LET up == ag.up IN
    /\ IF up.tpos < Len(up.files[up.tid])
       THEN LET n == up.files[up.tid][up.tpos + 1] IN
            IF up.half = n
            THEN ag' = [ag EXCEPT !.up.tpos = @ + 1, !.up.half = 0, !.up.read[n] = @ + 1]
            ELSE /\ up.lock = "free"
                 /\ ag' = [ag EXCEPT !.up.tpos = @ + 1,
                                     !.up.pending = Append(@, n),
                                     !.up.read[n] = @ + 1,
                                     !.up.enq[n] = @ + 1]
       ELSE IF up.tid = up.path /\ up.tpos = Len(up.files[up.tid])
               /\ up.frag # 0 /\ up.half # up.frag
            THEN /\ up.fragTok => up.lock = "free"
                 /\ ag' = [ag EXCEPT !.up.half = up.frag,
                                     !.up.pending = IF up.fragTok
                                                    THEN Append(@, 0 - up.frag) ELSE @]
            ELSE /\ up.path # up.tid
                 /\ ag' = [ag EXCEPT !.up.tid = up.path, !.up.tpos = 0]
    /\ UNCHANGED <<ctlVars, chk, ls>>

\* the POST routes of the controller (server.py main)
PostRoutes == {"/log", "/log_upload"}

\* the status a POST to the controller is answered with, when it arrives
RouteStatus(path) == IF path \in PostRoutes THEN 200 ELSE 404

\* batch_sender: what is left of pending_entries after a batch was taken
\* and sent; send_batch only counts a failure
RestAfterSendRequeue(pending, k, status) ==
    IF status = 200 THEN SubSeq(pending, k + 1, Len(pending)) ELSE pending
RestAfterSend(pending, k, status) == SubSeq(pending, k + 1, Len(pending))

\* batch_sender, one turn with something pending: pending_lock is taken, up
\* to BATCH_SIZE entries are taken from the left and send_batch begins its
\* POST to /log_batch, inside the with block
BatchSender ==
    LET up == ag.up
        k == IF Len(up.pending) < BATCH_SIZE THEN Len(up.pending) ELSE BATCH_SIZE IN
    /\ up.lock = "free"
    /\ up.pending # <<>>
    /\ ag' = [ag EXCEPT !.up.lock = "sender",
                        !.up.sending = SubSeq(up.pending, 1, k),
                        !.up.pending = SubSeq(up.pending, k + 1, Len(up.pending))]
    /\ UNCHANGED <<ctlVars, chk, ls>>

\* send_batch: the POST is over (arrives: the request reached the controller
\* and was answered; otherwise it timed out or failed); send_batch returns
\* and batch_sender leaves the with block
SendBatch(arrives) ==
    LET up == ag.up
        batch == {up.sending[j] : j \in 1 .. Len(up.sending)}
        status == IF arrives THEN RouteStatus("/log_batch") ELSE 0 IN
    /\ up.sending # <<>>
    /\ ag' = [ag EXCEPT !.up.pending = RestAfterSend(up.sending \o up.pending,
                                                     Len(up.sending), status),
                        !.up.posted = [n \in LineNos |-> IF n \in batch THEN @[n] + 1 ELSE @[n]],
                        !.up.status = status,
                        !.up.sending = <<>>,
                        !.up.lock = "free"]
    /\ UNCHANGED <<ctlVars, chk, ls>>

\* ------------------------------------------------------------------------
\* Spec: automatic enforcement on the controller (ingest, scan and sweep,
\* one subscriber over its limit)
\* ------------------------------------------------------------------------
CtlUsers == {"alice"}
CtlIPs == {IP11, IP21}
CtlNodes == {"nodeA"}
CtlInstants == {0, 5, 60, 600}
CtlSlots == 1 .. MaxTasks

HistInit ==
    [enfTimes |-> [u \in AllUsers |-> <<>>],
     absTimes |-> [u \in AllUsers |-> {}],
     disPosts |-> [u \in AllUsers |-> 0],
     fanouts |-> [u \in AllUsers |-> 0],
     apiCalls |-> [u \in AllUsers |-> <<>>],
     manual |-> 0,
     boot |-> NoTs,
     posts |-> [x \in AllIPs \X AllNodes |-> 0],
     checks |-> {},
     req |-> "none",
     prev |-> [n \in AllNodes |-> {}]]

CtlInitCommon ==
    /\ now = 0
    /\ conns = [u \in AllUsers |-> [ip \in AllIPs |-> NoConn]]
    /\ limit_cache = [u \in AllUsers |-> NoLimit]
    /\ drop_cooldown = [u \in AllUsers |-> NoTs]
    /\ disabled_file = {}
    /\ disabled_users = LoadDisabledUsers(disabled_file)
    /\ log_state = [n \in AllNodes |-> NoLine]
    /\ tasks = [i \in 1 .. MaxTasks |-> Idle]
    /\ delivered = {}
    /\ reqCount = 0
    /\ cleanup_wake = CLEANUP_SLEEP_SECONDS
    /\ sessions = [s \in Sids |-> NoTs]
    /\ hist = HistInit
    /\ ls = [recently_dropped |-> [u \in AllUsers |-> NoTs],
             limit_cache |-> [u \in AllUsers |-> NoLimit],
             tasks |-> [i \in 1 .. MaxTasks |->
                          [pc |-> "idle", user |-> "", ip |-> IP11, n |-> 0, t0 |-> NoTs]],
             drops |-> [u \in AllUsers |-> <<>>],
             reqs |-> 0]

Init ==
    /\ CtlInitCommon
    /\ cfgv = [smart |-> FALSE]
    /\ upstream = [u \in AllUsers |-> [known |-> TRUE, limit |-> 1]]
    /\ chk = ChkStart(TRUE, FALSE)
    /\ ag = AgStart

Next ==
    \/ \E u \in CtlUsers, ip \in CtlIPs, n \in CtlNodes, ok \in BOOLEAN :
            HandleLogSingle(CtlSlots, u, ip, n, ok)
    \/ \E i \in CtlSlots : TaskStart(i)
    \/ \E o \in Orders(GetActiveUsers(conns, now)) : ScannerTask(CtlSlots, o)
    \/ \E i \in CtlSlots, ok \in BOOLEAN : LimitResp(i, ok)
    \/ \E i \in CtlSlots, ok \in BOOLEAN : UuidResp(i, ok)
    \/ \E i \in CtlSlots, ok \in BOOLEAN : PostResp(i, ok)
    \/ \E i \in CtlSlots, okNodes \in SUBSET CtlNodes : DropStep(i, CtlNodes, okNodes)
    \/ \E o \in Orders({u \in AllUsers : disabled_users[u] # NoTs /\ now >= disabled_users[u]}) :
            CleanupTask(CtlSlots, o)
    \/ Tick(CtlInstants)

Spec == Init /\ [][Next]_vars

\* SpecOps: the same with the operator's drop and unban requests
NextOps ==
    \/ Next
    \/ \E u \in CtlUsers : ActionDropUser(CtlSlots, u)
    \/ \E u \in CtlUsers : ActionUnbanUser(CtlSlots, u)

SpecOps == Init /\ [][NextOps]_vars

\* ------------------------------------------------------------------------
\* Properties of the enforcement (checked under Spec)
\* ------------------------------------------------------------------------
ActiveDisable(u) == disabled_users[u] # NoTs /\ now < disabled_users[u]

Quiet(u) == \A i \in DOMAIN tasks : tasks[i].kind = "idle" \/ tasks[i].user # u

\* C1: while a subscriber is in disabled_users with now < expires_at, the
\* automatic enforcement sends no further disable call for it.
C1_NoEnforcementWhileDisabled ==
    [][\A u \in AllUsers :
          ActiveDisable(u) => hist'.disPosts[u] = hist.disPosts[u]]_vars

\* C2: the violations of one subscriber that handle_violation sees less than
\* DROP_COOLDOWN apart lead to one enforcement: two enforcements are at least
\* DROP_COOLDOWN apart, every other violation is absorbed by an enforcement
\* that began less than DROP_COOLDOWN before it, and an enforcement sends at
\* most one disable POST and runs its fan-out once.
C2_OneEnforcementPerCooldown ==
    \A u \in AllUsers :
        LET e == hist.enfTimes[u] IN
        /\ \A i, j \in 1 .. Len(e) : i < j => e[j] - e[i] >= DROP_COOLDOWN_SECONDS
        /\ \A t \in hist.absTimes[u] :
              \E i \in 1 .. Len(e) : 0 <= t - e[i] /\ t - e[i] < DROP_COOLDOWN_SECONDS
        /\ hist.disPosts[u] <= Len(e)
        /\ hist.fanouts[u] <= Len(e)
        /\ Quiet(u) => hist.fanouts[u] = Len(e)

\* C2 witness: violations at the instant of the enforcement and 5 s after it
\* were absorbed, and the one enforcement sent its disable and its fan-out.
C2_Witness ==
    \E u \in AllUsers :
        /\ hist.enfTimes[u] = <<0>>
        /\ hist.absTimes[u] = {0, 5}
        /\ hist.disPosts[u] = 1
        /\ hist.fanouts[u] = 1
        /\ Quiet(u)

\* C3: the successful disable and enable calls for a subscriber alternate,
\* beginning with a disable.
C3_ApiCallsAlternate ==
    \A u \in AllUsers :
        \A k \in 1 .. Len(hist.apiCalls[u]) :
            hist.apiCalls[u][k] = (IF k % 2 = 1 THEN "disable" ELSE "enable")

\* the step is the 200 answer to the enable POST of the sweep for u
SweepEnabled(u) ==
    /\ hist'.apiCalls[u] = Append(hist.apiCalls[u], "enable")
    /\ \E i \in DOMAIN tasks : tasks[i].kind = "sweep" /\ tasks[i].pc = "post"
                                /\ tasks[i].user = u /\ tasks'[i].pc # "post"

\* C16: an enable call of the sweep that succeeds answers a disable that is
\* still in disabled_users and has had no successful enable yet; it takes
\* the subscriber out of disabled_users and the file is rewritten to match.
C16_SweepEnablesOnce ==
    [][\A u \in AllUsers :
          SweepEnabled(u) =>
              /\ disabled_users[u] # NoTs
              /\ hist.apiCalls[u] # <<>>
              /\ hist.apiCalls[u][Len(hist.apiCalls[u])] = "disable"
              /\ disabled_users'[u] = NoTs
              /\ disabled_file' = SaveDisabledUsers(disabled_users')]_vars

\* the sweep enabled, once, the subscriber disabled at 0 whose expiry passed
C16_Witness ==
    \E u \in AllUsers :
        /\ hist.apiCalls[u] = <<"disable", "enable">>
        /\ now >= DISABLE_MINUTES * 60
        /\ disabled_users[u] = NoTs /\ disabled_file = {}
        /\ Quiet(u)

\* ------------------------------------------------------------------------
\* SpecRestart: the automatic enforcement with restarts of the controller
\* ------------------------------------------------------------------------
NextRestart == Next \/ Restart

SpecRestart == Init /\ [][NextRestart]_vars

\* the last successful call for u is a disable
Outstanding(u) ==
    /\ hist.apiCalls[u] # <<>>
    /\ hist.apiCalls[u][Len(hist.apiCalls[u])] = "disable"

\* C17: at every moment, also right after a restart, a subscriber whose
\* last successful call is a disable is in disabled_users, and the file
\* holds what disabled_users holds, so that a start loads the same map.
C17_DisabledSurvivesRestart ==
    /\ \A u \in AllUsers : Outstanding(u) => disabled_users[u] # NoTs
    /\ LoadDisabledUsers(disabled_file) = disabled_users

\* the subscriber disabled at 0 was enabled by the sweep at its expiry, the
\* controller having been restarted in between
C17_Witness ==
    \E u \in AllUsers :
        /\ hist.apiCalls[u] = <<"disable", "enable">>
        /\ hist.boot # NoTs /\ hist.boot < DISABLE_MINUTES * 60
        /\ now >= DISABLE_MINUTES * 60
        /\ disabled_users[u] = NoTs /\ disabled_file = {}

\* ------------------------------------------------------------------------
\* SpecFan: enforcement with two configured nodes, each of which may fail
\* ------------------------------------------------------------------------
FanNodes == {"nodeA", "nodeB"}
FanInstants == {0, 5, 60}

NextFan ==
    \/ \E u \in CtlUsers, ip \in CtlIPs, n \in CtlNodes, ok \in BOOLEAN :
            HandleLogSingle(CtlSlots, u, ip, n, ok)
    \/ \E i \in CtlSlots : TaskStart(i)
    \/ \E i \in CtlSlots, ok \in BOOLEAN : LimitResp(i, ok)
    \/ \E i \in CtlSlots, ok \in BOOLEAN : UuidResp(i, ok)
    \/ \E i \in CtlSlots, ok \in BOOLEAN : PostResp(i, ok)
    \/ \E i \in CtlSlots, okNodes \in SUBSET FanNodes : DropStep(i, FanNodes, okNodes)
    \/ Tick(FanInstants)

SpecFan == Init /\ [][NextFan]_vars

\* the step is one drop_ip_on_all_nodes of task i
FansOut(i) == tasks[i].pc = "drop" /\ tasks'[i] # tasks[i]

\* C18: a fan-out of an address sends every configured node one POST,
\* whichever nodes fail, and sends none for another address (no retry);
\* the cooldown of the subscriber, set when the enforcement began, stays.
C18_FanOutReachesEveryNode ==
    [][\A i \in DOMAIN tasks :
          FansOut(i) =>
              \E ip \in tasks[i].ips :
                  /\ \A n \in FanNodes :
                        hist'.posts[<<ip, n>>] = hist.posts[<<ip, n>>] + 1
                  /\ \A x \in (AllIPs \ {ip}) \X AllNodes :
                        hist'.posts[x] = hist.posts[x]
                  /\ drop_cooldown[tasks[i].user] # NoTs
                  /\ drop_cooldown'[tasks[i].user] = drop_cooldown[tasks[i].user]]_vars

\* nodeB failed for both addresses; nodeA got both, nodeB was sent each once
C18_Witness ==
    \E u \in AllUsers :
        /\ hist.fanouts[u] = 1 /\ Quiet(u)
        /\ delivered = {<<IP11, "nodeA">>, <<IP21, "nodeA">>}
        /\ \A ip \in {IP11, IP21}, n \in FanNodes : hist.posts[<<ip, n>>] = 1
        /\ drop_cooldown[u] = 0

\* the step ends the disable call of the enforcement of task i without a
\* 200: no uuid was resolved, or the POST failed
DisableFails(i) ==
    /\ tasks[i].op = "disable" /\ tasks[i].kind \in AutoKinds
    /\ tasks'[i] # tasks[i]
    /\ \/ tasks[i].pc = "uuid" /\ tasks'[i].pc # "post"
       \/ /\ tasks[i].pc = "post"
          /\ hist'.apiCalls[tasks[i].user] = hist.apiCalls[tasks[i].user]

\* C19: an enforcement whose disable call fails ends there: the cooldown
\* stays set, disabled_users is not written and no fan-out follows.
C19_FailedDisableStopsEnforcement ==
    [][\A i \in DOMAIN tasks :
          DisableFails(i) =>
              /\ drop_cooldown'[tasks[i].user] = drop_cooldown[tasks[i].user]
              /\ drop_cooldown[tasks[i].user] # NoTs
              /\ disabled_users' = disabled_users
              /\ tasks'[i].pc # "drop"]_vars

\* ------------------------------------------------------------------------
\* SpecPrune: ingest and the prune of cleanup_task, which runs as soon as
\* its sleep is over: the clock does not pass cleanup_wake before it has run
\* ------------------------------------------------------------------------
PruneIPs == {IP11}
PruneInstants == {0, 60, 120, 180, 240, 300, 360, 420}

NextPrune ==
    \/ \E u \in CtlUsers, ip \in PruneIPs, n \in CtlNodes, ok \in BOOLEAN :
            HandleLogSingle(CtlSlots, u, ip, n, ok)
    \/ \E i \in CtlSlots : TaskStart(i)
    \/ \E i \in CtlSlots, ok \in BOOLEAN : LimitResp(i, ok)
    \/ CleanupTask(CtlSlots, <<>>)
    \/ Tick(PruneInstants) /\ now' <= cleanup_wake

SpecPrune == Init /\ [][NextPrune]_vars

\* C21: every entry of the index was last seen at most
\* IP_WINDOW_SECONDS + PRUNE_GRACE_SECONDS ago.
C21_IndexEntriesFresh ==
    \A u \in AllUsers, ip \in AllIPs :
        conns[u][ip] # NoConn
            => now - conns[u][ip].ts <= IP_WINDOW_SECONDS + PRUNE_GRACE_SECONDS

\* ------------------------------------------------------------------------
\* SpecDet: ingest and detection on the controller
\* ------------------------------------------------------------------------
DetUsers == {"alice"}
DetIPs == {IP11, IP12, IP13}
DetInstants == {0, 300}
DetSlots == {1, 2}

RECURSIVE SeqsUpTo(_, _)
SeqsUpTo(S, n) ==
    IF n = 0 THEN {<<>>}
    ELSE LET shorter == SeqsUpTo(S, n - 1)
         IN  shorter \cup {Append(q, x) : q \in shorter, x \in S}

\* single events come from nodeA, raw-line uploads from nodeB
DetSingleNodes == {"nodeA"}
DetUploadNodes == {"nodeB"}
DetLines == {ConnLine(u, IP12) : u \in DetUsers} \cup {NoiseLine}

\* the subscription API's record: unknown subscriber, no limit, limit 1 or 2
DetUpstream ==
    {[known |-> FALSE, limit |-> 0], [known |-> TRUE, limit |-> 0],
     [known |-> TRUE, limit |-> 1], [known |-> TRUE, limit |-> 2]}

InitDet ==
    /\ CtlInitCommon
    /\ cfgv \in [smart : BOOLEAN]
    /\ upstream \in {f \in [AllUsers -> DetUpstream] :
                        \A u \in AllUsers \ DetUsers : f[u] = [known |-> TRUE, limit |-> 1]}
    /\ chk = ChkStart(TRUE, FALSE)
    /\ ag = AgStart

NextDet ==
    \/ \E u \in DetUsers, ip \in DetIPs, n \in DetSingleNodes, ok \in BOOLEAN :
            HandleLogSingle(DetSlots, u, ip, n, ok)
    \/ \E n \in DetUploadNodes, lines \in SeqsUpTo(DetLines, MaxLines), ok \in BOOLEAN :
            HandleLogUpload(DetSlots, n, lines, ok)
    \/ \E b \in BOOLEAN : ActionSaveSettings(b)
    \/ \E i \in DetSlots : TaskStart(i)
    \/ \E i \in DetSlots, ok \in BOOLEAN : LimitResp(i, ok)
    \/ \E i \in DetSlots, ok \in BOOLEAN : UuidResp(i, ok)
    \/ \E i \in DetSlots, ok \in BOOLEAN : PostResp(i, ok)
    \/ \E i \in DetSlots, okNodes \in SUBSET CtlNodes : DropStep(i, CtlNodes, okNodes)
    \/ Tick(DetInstants)

SpecDet == InitDet /\ [][NextDet]_vars

\* ------------------------------------------------------------------------
\* Properties of the detection (checked under SpecDet)
\* ------------------------------------------------------------------------
\* the IPs of u whose last_seen lies less than w seconds back, after the step
SeenWithin(u, w) ==
    {ip \in AllIPs : conns'[u][ip].ts # NoTs /\ now' - conns'[u][ip].ts < w}

\* C4: a check_user that obtained a positive limit obtained the subscriber's
\* limit, and it calls handle_violation iff the number of distinct IPs of the
\* subscriber last seen inside IP_WINDOW is strictly greater than that limit.
C4_StrictIffOverLimit ==
    [][\A c \in hist'.checks :
          c.limit > 0 =>
              /\ c.limit = upstream[c.user].limit
              /\ c.emitted <=> Cardinality(SeenWithin(c.user, IP_WINDOW_SECONDS)) > c.limit]_vars

\* C4 witness: a check at t=300 with limit 1 found one IP inside the window
\* (seen at 300) and one outside it (seen at 0), and emitted no violation.
C4_Witness ==
    \E c \in hist.checks :
        /\ c.limit = 1 /\ ~c.emitted /\ now = 300
        /\ conns[c.user][IP11].ts = 0
        /\ conns[c.user][IP12].ts = 300
        /\ conns[c.user][IP13] = NoConn

\* C5: with the smart policy selected, a check of a subscriber with limit L
\* whose L+1 IPs were all seen inside the concurrent window, all reported by
\* one node and all in one /24, emits no violation.
C5_SmartAbsorbsHandover ==
    [][\A c \in hist'.checks :
          LET ips == SeenWithin(c.user, CONCURRENT_WINDOW) IN
          ( /\ cfgv.smart
            /\ c.limit > 0
            /\ ips = SeenWithin(c.user, IP_WINDOW_SECONDS)
            /\ Cardinality(ips) = c.limit + 1
            /\ Cardinality({conns'[c.user][ip].node : ip \in ips}) = 1
            /\ Cardinality({Subnet24(ip) : ip \in ips}) = 1 )
          => ~c.emitted]_vars

\* C7: a request to an ingest endpoint without the correct secret changes
\* neither the connection index nor the set of pending evaluations.
C7_UnauthIngestRejected ==
    [][hist'.req = "unauth" => (conns' = conns /\ tasks' = tasks)]_vars

\* ------------------------------------------------------------------------
\* SpecChk: the periodic checker
\* ------------------------------------------------------------------------
ChkUsers == {"alice"}
ChkIPs == {IP11, IP21}
ChkNodes == {"nodeA"}
ChkInstants == {0, 15, 150}

InitChk ==
    /\ CtlInitCommon
    /\ cfgv = [smart |-> FALSE]
    /\ upstream \in {f \in [AllUsers -> DetUpstream] :
                        \A u \in AllUsers \ ChkUsers : f[u] = [known |-> TRUE, limit |-> 1]}
    /\ chk \in {[ChkStart(table, kick) EXCEPT !.window = w] :
                    table \in BOOLEAN, kick \in BOOLEAN,
                    w \in {CHK_IP_WINDOW_SECONDS, CLEANUP_MAX_AGE_SECONDS, IP_WINDOW_SECONDS}}
    /\ ag = AgStart

NextChk ==
    \/ \E u \in ChkUsers, ip \in ChkIPs : LogConnection(u, ip)
    \/ \E uo \in Orders(GetUsersToUnblock(chk.blocked, now)),
          o \in Orders(GetAllActiveUsers(chk.rows, now)) : ChkCycleStart(uo, o)
    \/ \E ok \in BOOLEAN, o \in Orders(GetAllActiveUsers(chk.rows, now)) : ChkUnblockUuid(ok, o)
    \/ \E ok \in BOOLEAN, o \in Orders(GetAllActiveUsers(chk.rows, now)) : ChkUnblockEnable(ok, o)
    \/ \E ok \in BOOLEAN : ChkLimitResp(ok)
    \/ \E okNodes \in SUBSET ChkNodes : ChkKick(okNodes)
    \/ \E ok \in BOOLEAN : ChkUuidResp(ok)
    \/ \E ok \in BOOLEAN : ChkDisableResp(ok)
    \/ Tick(ChkInstants)

SpecChk == InitChk /\ [][NextChk]_vars

\* C6: a subscriber that is unknown upstream, or whose upstream limit is 0,
\* is never found in violation, never has an IP kicked and is never disabled.
C6_PolicyAbsentNeverEnforced ==
    \A u \in AllUsers :
        (~upstream[u].known \/ upstream[u].limit <= 0) =>
            /\ chk.confirmed[u] = 0
            /\ chk.kicks = {}
            /\ chk.disables[u] = 0

\* C20: the connections table holds at most one row for a (user, ip) pair
\* reported twice less than the window apart.
C20_OneEntryPerKey ==
    \A r1, r2 \in chk.rows :
        (r1.user = r2.user /\ r1.ip = r2.ip
            /\ r1.ts - r2.ts < chk.window /\ r2.ts - r1.ts < chk.window)
        => r1 = r2

\* ------------------------------------------------------------------------
\* SpecNode: the agent of node.py
\* ------------------------------------------------------------------------
NdKeys == {Key(IP11, NoPort), Key(IP21, NoPort)}
AgDurations == {5, 60}
AgInstants == {0, 5, 10, 60}

InitNode ==
    /\ CtlInitCommon
    /\ cfgv = [smart |-> FALSE]
    /\ upstream = [u \in AllUsers |-> [known |-> TRUE, limit |-> 1]]
    /\ chk = ChkStart(TRUE, FALSE)
    /\ ag = AgStart

NextNode ==
    \/ \E k \in NdKeys, d \in AgDurations, ok \in BOOLEAN : NdBlockReq(k, d, ok)
    \/ NdBlockCheck
    \/ \E ok \in BOOLEAN : NdBlockInsert(ok)
    \/ NdBlockRegister
    \/ \E k \in NdKeys, ok \in BOOLEAN : NdUnblockReq(k, ok)
    \/ \E ok \in BOOLEAN : NdUnblockDelete(ok)
    \/ NdUnblockPop
    \/ \E o \in Orders({k \in AllKeys : ag.blocked_ips[k] # NoTs}), ok \in BOOLEAN :
            NdClearReq(o, ok)
    \/ NdClearStep
    \/ \E o \in Orders(Expired(ag.blocked_ips, now)) : NdSweepCollect(o)
    \/ \E ok \in BOOLEAN : NdSweepDelete(ok)
    \/ Tick(AgInstants)

SpecNode == InitNode /\ [][NextNode]_vars

\* C8: whenever neither thread of the agent is in the middle of an
\* operation, every key of blocked_ips has its DROP rule in the chain.
C8_RegisteredKeyHasRule ==
    (ag.h.pc = "idle" /\ ag.s.pc = "sleep") =>
        \A k \in AllKeys : ag.blocked_ips[k] # NoTs => ag.fw[k] > 0

\* ------------------------------------------------------------------------
\* SpecRep: the agent of node_reporter.py; SpecRepFair: the same with its
\* threads scheduled again and again and the clock moving on
\* ------------------------------------------------------------------------
RpKeys == {Key(IP11, NoPort), Key(IP11, 5555)}
RpDurations == {60}
RpInstants == {0, 60, 120, 180}

NextRep ==
    \/ \E k \in RpKeys, d \in RpDurations, ok \in BOOLEAN : RpBlockReq(k, d, ok)
    \/ RpBlockCheck
    \/ \E ok \in BOOLEAN : RpBlockAdd(ok)
    \/ RpBlockRegister
    \/ \E k \in RpKeys, ok \in BOOLEAN : RpUnblockReq(k, ok)
    \/ \E ok \in BOOLEAN : RpUnblockDelete(ok)
    \/ RpUnblockPop
    \/ \E o \in Orders(Expired(ag.blocked_ips, now)) : RpSweepCollect(o)
    \/ \E ok \in BOOLEAN : RpSweepDelete(ok)
    \/ Tick(RpInstants)

SpecRep == InitNode /\ [][NextRep]_vars

SpecRepFair ==
    /\ InitNode
    /\ [][NextRep]_vars
    /\ WF_vars(RpBlockCheck)
    /\ WF_vars(\E ok \in BOOLEAN : RpBlockAdd(ok))
    /\ WF_vars(RpBlockRegister)
    /\ WF_vars(\E ok \in BOOLEAN : RpUnblockDelete(ok))
    /\ WF_vars(RpUnblockPop)
    /\ WF_vars(\E o \in Orders(Expired(ag.blocked_ips, now)) : RpSweepCollect(o))
    /\ WF_vars(\E ok \in BOOLEAN : RpSweepDelete(ok))
    /\ WF_vars(Tick(RpInstants))

\* the key is registered and its removal is due at an instant the clock has
\* not reached (its expiry, or the next wake-up of the sweep)
RemovalPending(k) ==
    ag.blocked_ips[k] # NoTs /\ (ag.blocked_ips[k] > now \/ ag.s.wake > now)

\* C9: a rule in the chain is eventually gone from it, unless its removal
\* is still due at an instant the clock has not reached.
C9_RuleEventuallyRemoved ==
    \A k \in AllKeys : (ag.fw[k] > 0) ~> (ag.fw[k] = 0 \/ RemovalPending(k))

\* C10: whatever block requests were answered, the chain never holds a
\* second rule for a key.
C10_OneRulePerKey ==
    \A k \in AllKeys : ag.fw[k] <= 1

\* ------------------------------------------------------------------------
\* Properties of the agent's operations
\* ------------------------------------------------------------------------
Max(a, b) == IF a >= b THEN a ELSE b

\* the step is the registration that ends a block of key k
BlockRegisters(k) == ag.h.pc = "register" /\ ag.h.key = k /\ ag'.h.pc = "idle"

\* C11: a block that registers a key already in blocked_ips leaves it with
\* the later of its old expiry and now + duration.
C11_ReblockKeepsLaterExpiry ==
    [][\A k \in AllKeys :
          (BlockRegisters(k) /\ ag.blocked_ips[k] # NoTs)
              => ag'.blocked_ips[k] = Max(ag.blocked_ips[k], now + ag.h.dur)]_vars

\* the step is the answer that ends an unblock of key k
UnblockAnswers(k) == ag.h.pc = "unb_pop" /\ ag.h.key = k /\ ag'.h.pc = "idle"

\* C12: when an unblock of a key is answered the answer is 200, the key is
\* not in blocked_ips and the chain holds no rule of the key, whether a
\* block of the key came before it or not; if the key was not blocked the
\* unblock changes neither blocked_ips nor the chain.
C12_UnblockLeavesNothing ==
    [][\A k \in AllKeys :
          UnblockAnswers(k)
              => /\ ag'.resp = Resp("unblock", k, 200)
                 /\ ag'.blocked_ips[k] = NoTs
                 /\ ag'.fw[k] = 0]_vars

\* the step is the answer that ends a /clear
ClearAnswers == ag.h.pc = "clear" /\ ag.h.todo = <<>> /\ ag'.h.pc = "idle"

\* C13: when an authenticated /clear is answered, blocked_ips is empty and
\* the chain holds no rule of any key.
C13_ClearLeavesNothing ==
    [][ClearAnswers
          => /\ ag'.resp = Resp("clear", HIdle.key, 200)
             /\ \A k \in AllKeys : ag'.blocked_ips[k] = NoTs /\ ag'.fw[k] = 0]_vars

\* the step is the arrival of a request
RequestArrives == ag'.reqs = ag.reqs + 1

\* C14: a request whose secret is not the agent's is answered 403 at once,
\* and neither blocked_ips nor the chain changes.
C14_BadSecretRejected ==
    [][(RequestArrives /\ ~ag'.secretOk)
          => /\ ag'.resp.status = 403
             /\ ag'.h = HIdle
             /\ ag'.blocked_ips = ag.blocked_ips
             /\ ag'.fw = ag.fw]_vars

\* a /clear with a wrong secret was answered 403 while a key is blocked
C14_Witness ==
    /\ ~ag.secretOk
    /\ ag.resp = Resp("clear", HIdle.key, 403)
    /\ ag.h.pc = "idle"
    /\ \E k \in AllKeys : ag.blocked_ips[k] # NoTs /\ ag.fw[k] > 0

\* the step is the handler's, in a block of key k
BlockStep(k) == ag.h.pc \in {"check", "insert"} /\ ag.h.key = k /\ ag'.h # ag.h

\* C15: no step of a block before its registration writes blocked_ips, and
\* a block whose iptables -I fails ends there: it is answered with an error
\* status and the chain is as it was.
C15_FailedBlockNotRecorded ==
    [][\A k \in AllKeys :
          BlockStep(k) =>
              /\ ag'.blocked_ips = ag.blocked_ips
              /\ (ag'.h.pc = "idle") =>
                    /\ ag'.resp.op = "block" /\ ag'.resp.key = k
                    /\ ag'.resp.status \in {400, 500}
                    /\ ag'.fw = ag.fw]_vars

\* a block of an unregistered key failed while another key is registered
C15_Witness ==
    /\ ag.h.pc = "idle"
    /\ ag.secretOk
    /\ ag.resp.op = "block" /\ ag.resp.status = 400
    /\ ag.blocked_ips[ag.resp.key] = NoTs /\ ag.fw[ag.resp.key] = 0
    /\ \E k \in AllKeys : ag.blocked_ips[k] # NoTs

\* the step decides a check of u with the limit l
ChecksWith(u, l) == \E c \in hist'.checks : c.user = u /\ c.limit = l

\* C28: get_user_limit called with a cache entry younger than
\* LIMIT_CACHE_TTL returns the cached limit and sends no request; when its
\* request is answered, either the limit of the answer is returned and
\* cached with the time of the call, or 0 is returned and the cache is left
\* as it was.
C28_CachedLimitAndFailedFetch ==
    [][\A i \in CtlSlots :
          LET u == tasks[i].user IN
          /\ ( /\ tasks[i].pc = "start" /\ tasks'[i] # tasks[i]
               /\ limit_cache[u] # NoLimit
               /\ now - limit_cache[u][2] < LIMIT_CACHE_TTL )
             => /\ tasks'[i].pc # "limit"
                /\ limit_cache' = limit_cache
                /\ ChecksWith(u, limit_cache[u][1])
          /\ (tasks[i].pc = "limit" /\ tasks'[i] # tasks[i])
             => \/ /\ limit_cache' =
                         [limit_cache EXCEPT ![u] = <<upstream[u].limit, tasks[i].t0>>]
                   /\ ChecksWith(u, upstream[u].limit)
                \/ /\ limit_cache' = limit_cache
                   /\ ChecksWith(u, 0)]_vars

\* C28 witness: the limit 1 was cached at time 0; at 600 the entry is too
\* old, the request failed, the check got 0 and the entry is still there.
C28_Witness ==
    /\ now = 600
    /\ limit_cache["alice"] = <<1, 0>>
    /\ hist.checks = {[user |-> "alice", limit |-> 0, emitted |-> FALSE]}

\* the step is the answer to the get_user_uuid of the sweep's enable for u,
\* and it brought no uuid: no POST follows
SweepUuidUnresolved(u) ==
    \E i \in DOMAIN tasks :
        /\ tasks[i].kind = "sweep" /\ tasks[i].pc = "uuid" /\ tasks[i].user = u
        /\ tasks'[i] # tasks[i] /\ tasks'[i].pc # "post"

\* C29: when the sweep cannot resolve the uuid of an expired subscriber, it
\* takes the subscriber out of disabled_users and of the file.
C29_UnresolvableEntryCleared ==
    [][\A u \in AllUsers :
          SweepUuidUnresolved(u) =>
              /\ disabled_users'[u] = NoTs
              /\ disabled_file' = SaveDisabledUsers(disabled_users')]_vars

\* ------------------------------------------------------------------------
\* SpecScan: ingest and the scan over two subscribers, at one instant
\* ------------------------------------------------------------------------
NextScan ==
    \/ \E u \in AllUsers, ip \in CtlIPs, n \in CtlNodes :
            HandleLogSingle(CtlSlots, u, ip, n, TRUE)
    \/ \E i \in CtlSlots : TaskStart(i)
    \/ \E o \in Orders(GetActiveUsers(conns, now)) : ScannerTask(CtlSlots, o)
    \/ \E i \in CtlSlots, ok \in BOOLEAN : LimitResp(i, ok)
    \/ \E i \in CtlSlots, ok \in BOOLEAN : UuidResp(i, ok)
    \/ \E i \in CtlSlots, ok \in BOOLEAN : PostResp(i, ok)
    \/ \E i \in CtlSlots, okNodes \in SUBSET CtlNodes : DropStep(i, CtlNodes, okNodes)

SpecScan == Init /\ [][NextScan]_vars

\* the subscribers a scan has still to finish with: the one whose check_user
\* is running and those its loop has not come to
ScanRest(t) ==
    IF t.kind # "scan" THEN {}
    ELSE (IF t.user = "" THEN {} ELSE {t.user}) \cup {t.todo[j] : j \in 1 .. Len(t.todo)}

InitRace ==
    /\ now = 0
    /\ conns = [u \in AllUsers |-> [ip \in AllIPs |-> NoConn]]
    /\ limit_cache = [u \in AllUsers |-> NoLimit]
    /\ drop_cooldown = [u \in AllUsers |-> NoTs]
    /\ disabled_file = {<<u, CLEANUP_SLEEP_SECONDS>> : u \in AllUsers}
    /\ disabled_users = LoadDisabledUsers(disabled_file)
    /\ log_state = [n \in AllNodes |-> NoLine]
    /\ tasks = [i \in 1 .. MaxTasks |-> Idle]
    /\ delivered = {}
    /\ reqCount = 0
    /\ cleanup_wake = CLEANUP_SLEEP_SECONDS
    /\ sessions = [s \in Sids |-> NoTs]
    /\ hist = HistInit
    /\ ls = [recently_dropped |-> [u \in AllUsers |-> NoTs],
             limit_cache |-> [u \in AllUsers |-> NoLimit],
             tasks |-> [i \in 1 .. MaxTasks |->
                          [pc |-> "idle", user |-> "", ip |-> IP11, n |-> 0, t0 |-> NoTs]],
             drops |-> [u \in AllUsers |-> <<>>],
             reqs |-> 0]
    /\ cfgv = [smart |-> FALSE]
    /\ upstream = [u \in AllUsers |-> [known |-> TRUE, limit |-> 1]]
    /\ chk = ChkStart(TRUE, FALSE)
    /\ ag = AgStart

NextRace ==
    \/ \E u \in AllUsers, n \in CtlNodes : HandleLogSingle(CtlSlots, u, IP11, n, TRUE)
    \/ \E i \in CtlSlots : TaskStart(i)
    \/ \E i \in CtlSlots, ok \in BOOLEAN : LimitResp(i, ok)
    \/ \E i \in CtlSlots, ok \in BOOLEAN : UuidResp(i, ok)
    \/ \E i \in CtlSlots : PostServed(i)
    \/ \E i \in CtlSlots, ok \in BOOLEAN : PostResp(i, ok)
    \/ \E i \in CtlSlots, okNodes \in SUBSET CtlNodes : DropStep(i, CtlNodes, okNodes)
    \/ \E u \in AllUsers : ActionDropUser(CtlSlots, u)
    \/ \E u \in AllUsers : ActionUnbanUser(CtlSlots, u)
    \/ \E o \in Orders({u \in AllUsers : disabled_users[u] # NoTs /\ now >= disabled_users[u]}) :
            CleanupTask(CtlSlots, o)
    \/ Tick(CtlInstants)

SpecRace == InitRace /\ [][NextRace]_vars

\* the step is the sweep's call of enable_user_subscription for u
SweepCallsEnable(u) ==
    \E i \in DOMAIN tasks :
        /\ tasks'[i].kind = "sweep" /\ tasks'[i].user = u /\ tasks'[i].pc = "uuid"
        /\ tasks[i].kind # "sweep" \/ tasks[i].user # u

\* C33: the sweep calls enable for no subscriber whose entry in
\* disabled_users, at the moment of the call, expires later than now.
C33_SweepEnablesOnlyExpired ==
    [][\A u \in AllUsers :
          SweepCallsEnable(u) => ~(disabled_users[u] # NoTs /\ disabled_users[u] > now)]_vars

\* ------------------------------------------------------------------------
\* SpecLs: the real-time log server: batches of connections of one
\* subscriber whose limit is 1
\* ------------------------------------------------------------------------
NextLs ==
    \/ \E batch \in SeqsUpTo({[user |-> "alice", ip |-> ip] : ip \in CtlIPs}, MaxLines) :
            HandleLogBatch(batch)
    \/ \E i \in CtlSlots, ok \in BOOLEAN : CheckAndDrop(i, ok)
    \/ Tick(CtlInstants)

SpecLs == Init /\ [][NextLs]_vars

\* C34: no two drop fan-outs for one subscriber are issued less than
\* RECENTLY_DROPPED_SECONDS apart.
C34_OneFanOutPerWindow ==
    \A u \in AllUsers :
        \A j, k \in 1 .. Len(ls.drops[u]) :
            j < k => ls.drops[u][k] - ls.drops[u][j] >= RECENTLY_DROPPED_SECONDS

\* ------------------------------------------------------------------------
\* SpecAdmin: the admin panel of server.py: login and an action, over an
\* index that ingest fills
\* ------------------------------------------------------------------------
NextAdmin ==
    \/ \E u \in CtlUsers, ip \in PruneIPs, n \in CtlNodes, ok \in BOOLEAN :
            HandleLogSingle(CtlSlots, u, ip, n, ok)
    \/ \E i \in CtlSlots : TaskStart(i)
    \/ \E i \in CtlSlots, ok \in BOOLEAN : LimitResp(i, ok)
    \/ \E sid \in Sids, pwOk \in BOOLEAN : HandleLogin(sid, pwOk)
    \/ \E cookie \in Sids \cup {""} : ActionClearDb(cookie)
    \/ Tick(CtlInstants)

SpecAdmin == Init /\ [][NextAdmin]_vars

\* C26: an admin action requested without a valid session changes nothing:
\* not the index, the disabled subscribers, the settings or the running
\* evaluations.
C26_ActionNeedsSession ==
    [][hist'.req = "anon" =>
          /\ conns' = conns
          /\ disabled_users' = disabled_users
          /\ cfgv' = cfgv
          /\ tasks' = tasks]_vars

\* ------------------------------------------------------------------------
\* SpecTail: the upload pipeline of node.py and the log it follows
\* ------------------------------------------------------------------------
NextTail ==
    \/ LogWrite
    \/ \E inToken \in BOOLEAN : LogWriteFragment(inToken)
    \/ LogTruncate
    \/ LogRotate
    \/ TailLog
    \/ BatchSender
    \/ \E arrives \in BOOLEAN : SendBatch(arrives)

SpecTail == InitNode /\ [][NextTail]_vars

\* a bound below the number of lines the log is given
QueueBound == MaxLogLines - 1

\* C22: pending_entries never holds more than a fixed number of entries,
\* however many lines the tailer reads while nothing is sent.
C22_QueueBounded == Len(ag.up.pending) <= QueueBound

\* the step is a turn of batch_sender whose POST reached the controller
BatchArrives ==
    /\ ag'.up.posted # ag.up.posted
    /\ ag'.up.status # 0

\* the lines the step posts
BatchOf == {n \in LineNos : ag'.up.posted[n] # ag.up.posted[n]}

\* C23: a batch send_batch posts to the controller is answered 200, and
\* every entry of it is in the index, seen now.
C23_BatchAdmitted ==
    [][BatchArrives =>
          /\ ag'.up.status = 200
          /\ \A n \in BatchOf :
                /\ conns'[ParseLine(n).user][ParseLine(n).ip] # NoConn
                /\ conns'[ParseLine(n).user][ParseLine(n).ip].ts = now]_vars

\* the tailer has nothing to do: it is at the end of the file LOG_PATH names
TailAtEnd ==
    /\ ag.up.tid = ag.up.path
    /\ ag.up.tpos >= Len(ag.up.files[ag.up.tid])

\* C24: once the tailer has nothing more to read, every line that is in the
\* file, written since its last truncation, has been read.
C24_LinesAfterTruncationRead ==
    TailAtEnd =>
        \A j \in 1 .. Len(ag.up.files[ag.up.path]) :
            ag.up.read[ag.up.files[ag.up.path][j]] > 0

\* C25: after a rotation the tailer reads the new file from its beginning:
\* once it has nothing more to read, every line of the new file (not
\* truncated since) has been read, and no line of any file is read twice.
C25_RotationReadsNewFileOnce ==
    /\ \A n \in LineNos : ag.up.read[n] <= 1
    /\ (TailAtEnd /\ ag.up.path > 1 /\ ag.up.path \notin ag.up.truncated) =>
           \A j \in 1 .. Len(ag.up.files[ag.up.path]) :
               ag.up.read[ag.up.files[ag.up.path][j]] = 1

\* C25 witness: line 1 was read from the first file, the log was rotated,
\* lines 2 and 3 were written to the new file and the tailer has read both.
C25_Witness ==
    /\ TailAtEnd /\ ag.up.path = 2
    /\ ag.up.files[1] = <<1>> /\ ag.up.files[2] = <<2, 3>>
    /\ \A n \in LineNos : ag.up.read[n] = 1

\* the entries of pending_entries
Pending == {ag.up.pending[j] : j \in 1 .. Len(ag.up.pending)}

\* C27: an entry is posted at most once: a posted entry has left
\* pending_entries, whether or not the POST succeeded, and is not posted
\* again.
C27_PostedAtMostOnce ==
    \A n \in LineNos :
        /\ ag.up.posted[n] <= 1
        /\ ag.up.posted[n] = 1 => n \notin Pending

\* C27 witness: every batch failed, the last one with an error status;
\* every line was posted exactly once and nothing is pending.
C27_Witness ==
    /\ ag.up.status = 404
    /\ ag.up.pending = <<>>
    /\ \A n \in LineNos : ag.up.posted[n] = 1

\* the limits get_user_device_limit may return for u
PossibleLimits(u) ==
    {GetUserDeviceLimit(ok /\ upstream[u].known, upstream[u].limit) : ok \in BOOLEAN}

\* the users of a list
Range(q) == {q[j] : j \in 1 .. Len(q)}

\* C31: the checker's counter of a subscriber grows by one in a check that
\* finds it over its limit and does not yet confirm; the check that brings
\* it to VIOLATION_CONFIRM_COUNT enforces and sets it to zero; a check that
\* finds the subscriber within its limit, blocked or without active IPs
\* sets it to zero; and nothing else enforces.
C31_DebouncedEnforcement ==
    [][/\ (chk.pc = "limit" /\ (chk'.pc # "limit" \/ chk'.user # chk.user)) =>
            LET u == chk.user
                old == chk.violation_counts[u] IN
            \E l \in PossibleLimits(u) :
                IF Cardinality(chk.ips) > l
                THEN IF old + 1 < VIOLATION_CONFIRM_COUNT
                     THEN /\ chk'.violation_counts[u] = old + 1
                          /\ chk'.confirmed = chk.confirmed
                     ELSE /\ chk'.violation_counts[u] = 0
                          /\ chk'.confirmed[u] = chk.confirmed[u] + 1
                ELSE /\ chk'.violation_counts[u] = 0
                     /\ chk'.confirmed = chk.confirmed
       /\ \A u \in AllUsers :
            /\ chk'.confirmed[u] # chk.confirmed[u] =>
                   /\ chk.pc = "limit" /\ chk.user = u
                   /\ chk.violation_counts[u] = VIOLATION_CONFIRM_COUNT - 1
            /\ ( /\ u \in Range(chk.todo) \ Range(chk'.todo)
                 /\ ~(chk'.pc = "limit" /\ chk'.user = u) ) =>
                   chk'.violation_counts[u] = 0]_vars

\* C31 witness: the check of the second cycle confirmed the violation the
\* first had counted: one enforcement after two cycles, the counter back at
\* zero.
C31_Witness ==
    /\ chk.cycles = 2
    /\ chk.confirmed["alice"] = 1
    /\ chk.violation_counts["alice"] = 0
    /\ chk.pc \in {"kick", "uuid"}

\* C32: when no coroutine is at work on S, a subscriber S whose last
\* successful subscription-API call was a disable is in disabled_users.
C32_DisabledHasPendingEnable ==
    \A u \in AllUsers :
        ( /\ Quiet(u)
          /\ hist.apiCalls[u] # <<>>
          /\ hist.apiCalls[u][Len(hist.apiCalls[u])] = "disable" )
        => disabled_users[u] # NoTs


\* C35: whenever neither thread of the agent is in the middle of a block, an
\* unblock or a sweep, every DROP rule the agent installed that is still in
\* the chain has its key in blocked_ips; a removal command that fails leaves
\* no rule behind without its key.
C35_RuleHasRegistryEntry ==
    (ag.h.pc = "idle" /\ ag.s.pc = "sleep") =>
        \A k \in AllKeys : ag.fw[k] > 0 => ag.blocked_ips[k] # NoTs

\* the step deletes rows of the connections table and adds none
Prunes == chk'.rows # chk.rows /\ chk'.rows \subseteq chk.rows

\* C36: whatever IP_WINDOW_SECONDS is configured, a step that prunes the
\* connections table keeps every row younger than the window, so that
\* get_unique_ips and get_all_active_users return after it what they
\* returned before it.
C36_PruneKeepsWindow ==
    [][Prunes =>
          /\ \A r \in chk.rows : now - r.ts < chk.window => r \in chk'.rows
          /\ \A u \in AllUsers :
                GetUniqueIps(chk'.rows, u, now) = GetUniqueIps(chk.rows, u, now)
          /\ GetAllActiveUsers(chk'.rows, now) = GetAllActiveUsers(chk.rows, now)]_vars

\* C37: an upload admits every parseable line that the previous upload of
\* the same node did not contain (hist.prev: the parseable lines of that
\* upload): the marker skips lines already processed, never a new line
\* that precedes a line equal to the marker.
C37_NewLinesAdmitted ==
    [][\A n \in AllNodes, lines \in SeqsUpTo(DetLines, MaxLines) :
          HandleLogUpload(DetSlots, n, lines, TRUE) =>
              \A i \in 1 .. Len(lines) :
                  (lines[i].kind = "conn" /\ lines[i] \notin hist.prev[n])
                      => conns'[lines[i].user][lines[i].ip] = [node |-> n, ts |-> now]]_vars

\* the entries that are in pending_entries or in the batch being posted
Queued == Pending \cup {ag.up.sending[j] : j \in 1 .. Len(ag.up.sending)}

\* C38: the tailer makes an entry only of a complete line: no entry comes
\* from a fragment, and a line that was read to its end, in one part or in
\* two, has given exactly one entry, with the whole subscriber token.
C38_EntriesFromCompleteLines ==
    /\ \A e \in Queued : e > 0 /\ ParseLine(e).user \in AllUsers
    /\ \A n \in LineNos : ag.up.read[n] = ag.up.enq[n]

\* C39: batch_sender does not hold pending_lock while the POST of a batch is
\* in flight, so that an append of the tailer never waits for the network.
C39_LockFreeWhileSending ==
    ag.up.sending # <<>> => ag.up.lock = "free"
====
